---------------------------- MODULE Spec2Model ----------------------------
(***************************************************************************)
(* A model of the CAFE decoder (package cafe): the character-level lexer,  *)
(* the value transformer and the parser that builds the attribute/block    *)
(* tree, as one state machine.  Input text is a sequence of one-character  *)
(* strings, exactly the []string the lexer works on.  Indices are 0-based  *)
(* as in the Go source; At(l, i) reads l.input[i].                         *)
(***************************************************************************)
EXTENDS Integers, Sequences, FiniteSets, TLC

(***************************************************************************)
(* Generic helpers.                                                        *)
(***************************************************************************)
Min(S) == CHOOSE x \in S : \A y \in S : x <= y
Max(S) == CHOOSE x \in S : \A y \in S : x >= y

\* The characters strings.TrimSpace removes (those the model's texts contain).
Whitespace == {" ", "\n", "\t"}

\* strings.TrimSpace on a sequence of characters.
TrimSpace(s) ==
  LET keep == {i \in 1..Len(s) : s[i] \notin Whitespace}
  IN  IF keep = {} THEN <<>> ELSE SubSeq(s, Min(keep), Max(keep))

\* strings.Join(value, ""): the empty strings of a []string vanish.
Join(s) == SelectSeq(s, LAMBDA c : c # "")

\* strings.HasPrefix
HasPrefix(s, p) == Len(p) <= Len(s) /\ SubSeq(s, 1, Len(p)) = p

\* strings.Trim(s, cutset) for a one-character cutset
Trim(s, c) ==
  LET keep == {i \in 1..Len(s) : s[i] # c}
  IN  IF keep = {} THEN <<>> ELSE SubSeq(s, Min(keep), Max(keep))

\* strings.TrimLeft / strings.TrimRight for a one-character cutset
TrimLeft(s, c) ==
  LET keep == {i \in 1..Len(s) : s[i] # c}
  IN  IF keep = {} THEN <<>> ELSE SubSeq(s, Min(keep), Len(s))

TrimRight(s, c) ==
  LET keep == {i \in 1..Len(s) : s[i] # c}
  IN  IF keep = {} THEN <<>> ELSE SubSeq(s, 1, Max(keep))

\* hasPrefixToMany: the target, trimmed, starts with one of the values.
hasPrefixToMany(target, values) ==
  \E v \in values : HasPrefix(TrimSpace(target), TrimSpace(v))

(***************************************************************************)
(* The lexer.  A lexer value l is a record with the fields of the Go       *)
(* struct.  Every rule returns [ok, panic, l]: whether the rule matched,   *)
(* whether the Go code panicked (index or slice out of range, or an        *)
(* explicit panic), and the lexer afterwards.                              *)
(***************************************************************************)
NilProto == [kind |-> "keyNIL", value |-> <<>>, Length |-> 0]

newLexer(input) ==
  [input            |-> input,
   items            |-> <<>>,
   proto            |-> NilProto,
   currentLine      |-> 1,
   currentByteIndex |-> 0,
   currentByte      |-> input[1],
   lastEOL          |-> 0,
   atEOF            |-> FALSE]

Ret(ok, l) == [ok |-> ok, panic |-> FALSE, l |-> l]
Panics(l)  == [ok |-> FALSE, panic |-> TRUE, l |-> l]

InputLen(l) == Len(l.input)
At(l, i)    == l.input[i + 1]

\* readCAFEFile grows the input by append, one rune at a time from an empty
\* slice: the capacity of the result is the least power of two >= its length.
RECURSIVE CapFrom(_, _)
CapFrom(c, n) == IF c >= n THEN c ELSE CapFrom(2 * c, n)
Cap(l) == CapFrom(1, InputLen(l))

\* l.input[a:b]: legal when 0 <= a <= b <= cap; elements past the length are
\* the zero value "".
SliceOK(l, a, b) == 0 <= a /\ a <= b /\ b <= Cap(l)
Slice(l, a, b) ==
  [k \in 1..(b - a) |-> IF a + k <= InputLen(l) THEN l.input[a + k] ELSE ""]

\* Indices after the current one, in the order the range loops visit them.
After(l) == (l.currentByteIndex + 1)..(InputLen(l) - 1)

peekAndFind(l, key) ==
  LET stop == {i \in After(l) : At(l, i) = "\n" \/ At(l, i) = key}
  IN  IF stop = {} THEN <<FALSE, 0>>
      ELSE IF At(l, Min(stop)) = key THEN <<TRUE, Min(stop)>>
      ELSE <<FALSE, 0>>

peekAndFindAfter(l, key, startLookingAfter) ==
  LET stop == {i \in After(l) : i > startLookingAfter
                                /\ (At(l, i) = "\n" \/ At(l, i) = key)}
  IN  IF stop = {} THEN <<FALSE, 0>>
      ELSE IF At(l, Min(stop)) = key THEN <<TRUE, Min(stop)>>
      ELSE <<FALSE, 0>>

\* peekAndFindMany that also looks at the current byte.
peekAndFindManyFromCurrent(l, keys) ==
  LET stop == {i \in {l.currentByteIndex} \cup After(l) :
                 At(l, i) = "\n" \/ At(l, i) \in keys}
  IN  stop # {} /\ At(l, Min(stop)) # "\n"

peekAndFindMany(l, keys) ==
  LET stop == {i \in After(l) : At(l, i) = "\n" \/ At(l, i) \in keys}
  IN  stop # {} /\ At(l, Min(stop)) # "\n"

peekEOL(l) ==
  LET stop == {i \in After(l) : At(l, i) = "\n" \/ i = InputLen(l) - 1}
  IN  IF stop = {} THEN 0 ELSE Min(stop)

\* peekComment returns <<found, index, panic>>: reading input[i+1] after a
\* "/" that is the last character is an index out of range.
peekComment(l, startLookingAfter) ==
  LET stop == {i \in After(l) : i > startLookingAfter
                 /\ (At(l, i) = "\n"
                     \/ (At(l, i) = "/"
                         /\ (i + 1 >= InputLen(l) \/ At(l, i + 1) = "/")))}
  IN  IF stop = {} THEN <<FALSE, 0, FALSE>>
      ELSE IF At(l, Min(stop)) = "\n" THEN <<FALSE, 0, FALSE>>
      ELSE IF Min(stop) + 1 >= InputLen(l) THEN <<FALSE, 0, TRUE>>
      ELSE <<TRUE, Min(stop), FALSE>>

previousByte(l) ==
  IF l.currentByteIndex = 0 THEN "\n" ELSE At(l, l.currentByteIndex - 1)

\* previousItem indexes l.items[len-1]: a panic when no item was emitted.
HasPreviousItem(l) == Len(l.items) > 0
previousItem(l) == l.items[Len(l.items)]

\* searchNonWhitespacedValue: the loop over the input from the current index,
\* with 0 standing for "not set" as in the source.
RECURSIVE searchLoop(_, _, _)
searchLoop(l, i, firstIndex) ==
  IF i >= InputLen(l) THEN <<firstIndex, 0>>
  ELSE LET v  == At(l, i)
           f1 == IF firstIndex = 0 /\ v # " " /\ v # "\n" THEN i ELSE firstIndex
       IN  IF f1 # 0 /\ (v = " " \/ v = "\n") THEN <<f1, i>>
           ELSE IF i = InputLen(l) - 1 THEN <<f1, i + 1>>
           ELSE searchLoop(l, i + 1, f1)

\* <<value, firstIndex, lastIndex>>
searchNonWhitespacedValue(l) ==
  LET fl == searchLoop(l, l.currentByteIndex, 0)
  IN  IF fl[2] = 0 THEN << <<>>, 0, 0 >>
      ELSE <<TrimSpace(Join(Slice(l, fl[1], fl[2]))), fl[1], fl[2]>>

\* next, first part: the prototype, when there is one, becomes an item.
appendProto(l) ==
  IF l.proto.kind # "keyNIL"
  THEN [l EXCEPT
          !.items = Append(@,
             [kind     |-> l.proto.kind,
              value    |-> TrimSpace(Join(l.proto.value)),
              position |-> [Line   |-> l.currentLine,
                            Start  |-> l.currentByteIndex,
                            Length |-> l.proto.Length]]),
          !.proto = NilProto]
  ELSE l

lastItemLastByte(l) ==
  l.items[Len(l.items)].position.Start + l.items[Len(l.items)].position.Length

\* next, "Check EOL": the line counter and the index of the next newline.
checkEOL(l, eol) ==
  IF eol THEN [l EXCEPT !.currentLine = @ + 1,
                        !.lastEOL = peekAndFind(l, "\n")[2]]
  ELSE l

\* next, "Check EOF" and the move to index idx unless at EOF; input[idx] past
\* the end panics.
advance(l, idx) ==
  IF l.atEOF \/ l.currentByteIndex = InputLen(l) - 1
  THEN Ret(TRUE, [l EXCEPT !.atEOF = TRUE])
  ELSE IF idx = InputLen(l)
       THEN Ret(TRUE, [l EXCEPT !.currentByteIndex = idx, !.atEOF = TRUE])
  ELSE IF idx < 0 \/ idx > InputLen(l)
       THEN Panics([l EXCEPT !.currentByteIndex = idx])
  ELSE Ret(TRUE, [l EXCEPT !.currentByteIndex = idx,
                           !.currentByte = At(l, idx)])

\* next after the prototype is appended: items[len-1] panics without items,
\* and so does an item that ends at len(input)+1.
nextFromItems(l, whitespace, eol) ==
  IF Len(l.items) = 0 THEN Panics(l)
  ELSE IF lastItemLastByte(l) = InputLen(l) + 1 THEN Panics(l)
  ELSE advance(checkEOL(l, eol),
               IF whitespace THEN l.currentByteIndex + 1
               ELSE lastItemLastByte(l) + 1)

\* next: append the prototype as an item, then move to the next byte.
next(l, whitespace, eol) == nextFromItems(appendProto(l), whitespace, eol)

\* "Create prototype and call next": the prototype holds input[a:b].
emit(l, kind, a, b, length, eol) ==
  IF ~SliceOK(l, a, b) THEN Panics(l)
  ELSE next([l EXCEPT !.proto = [kind   |-> kind,
                                 value  |-> Slice(l, a, b),
                                 Length |-> length]],
            FALSE, eol)


(***************************************************************************)
(* The token rules, in the order lexByte tries them.                       *)
(***************************************************************************)
\* lexEOF only raises the flag; it never matches.
lexEOF(l) ==
  IF l.currentByteIndex = InputLen(l) - 1
  THEN Ret(FALSE, [l EXCEPT !.atEOF = TRUE])
  ELSE Ret(FALSE, l)

\* A step that follows another unless that one panicked.
Then(r, step(_)) == IF r.panic THEN r ELSE step(r.l)

\* next(l, TRUE, FALSE) applied k times (lexTab's loop), stopping at a panic.
RECURSIVE nextTimes(_, _)
nextTimes(l, k) ==
  IF k = 0 THEN Ret(TRUE, l)
  ELSE Then(next(l, TRUE, FALSE), LAMBDA l1 : nextTimes(l1, k - 1))

TabWidth == 4

\* lexTab joins input[i:i+3], three characters, and compares with four spaces.
lexTab(l) ==
  LET i == l.currentByteIndex
  IN  IF ~SliceOK(l, i, i + 3) THEN Panics(l)
      ELSE IF Join(Slice(l, i, i + 3)) = [k \in 1..TabWidth |-> " "]
           THEN nextTimes(l, TabWidth)
      ELSE Ret(FALSE, l)

lexEOL(l) ==
  IF l.currentByte = "\n" /\ l.currentByteIndex # 0
  THEN next(l, TRUE, TRUE)
  ELSE Ret(FALSE, l)

\* lexWhitespace that matches the space without calling next.
lexWhitespaceStaying(l) ==
  IF l.currentByte = " " THEN Ret(TRUE, l) ELSE Ret(FALSE, l)

lexWhitespace(l) ==
  IF l.currentByte = " " THEN next(l, TRUE, FALSE) ELSE Ret(FALSE, l)

lexComment(l) ==
  LET i == l.currentByteIndex
  IN  IF l.currentByte # "/" THEN Ret(FALSE, l)
      ELSE IF i + 1 >= InputLen(l) THEN Panics(l)       \* peek()
      ELSE IF At(l, i + 1) # "/" THEN Ret(FALSE, l)
      ELSE LET nextEOL == peekEOL(l)
           IN  emit(l, "keyComment", i, nextEOL, nextEOL - i, TRUE)

lexAttributeDef(l) ==
  LET i     == l.currentByteIndex
      equal == peekAndFind(l, "=")
  IN  IF HasPreviousItem(l) /\ previousItem(l).kind = "keyAttrDef"
      THEN Ret(FALSE, l)
      ELSE IF previousByte(l) # "\n"
              /\ \E j \in (l.lastEOL + 1)..(i - 1) : At(l, j) # " "
           THEN Ret(FALSE, l)
      ELSE IF ~equal[1] THEN Ret(FALSE, l)
      ELSE emit(l, "keyAttrDef", i, equal[2], equal[2] - i, FALSE)

lexBlockStart(l) ==
  LET i     == l.currentByteIndex
      brace == IF l.currentByte # "{" THEN peekAndFind(l, "{") ELSE <<TRUE, i>>
  IN  IF ~brace[1] THEN Ret(FALSE, l)
      ELSE emit(l, "keyBlockStart", i, brace[2], brace[2] - i, FALSE)

lexBlockEnd(l) ==
  LET i     == l.currentByteIndex
      brace == IF l.currentByte # "}" THEN peekAndFind(l, "}") ELSE <<TRUE, i>>
  IN  IF ~brace[1] THEN Ret(FALSE, l)
      ELSE emit(l, "keyBlockEnd", i, brace[2], brace[2] - i, FALSE)

\* The names of the built-in functions, by family (parser_items.go).
singleParamFunctions ==
  { <<"u","p","p","e","r">>, <<"l","o","w","e","r">>,
    <<"l","e","n","g","t","h">> }
stringFunctionNames ==
  singleParamFunctions \cup
  { <<"a","p","p","e","n","d">>, <<"c","o","n","c","a","t">>,
    <<"c","o","n","t","a","i","n","s">> }
numericalFunctionNames ==
  { <<"p","o","w","e","r">>, <<"f","l","o","o","r">>,
    <<"r","e","m","a","i","n","d","e","r">> }
gateLogicFunctionNames ==
  { <<"a","n","d">>, <<"o","r">>, <<"n","a","n","d">>, <<"n","o","r">>,
    <<"x","o","r">>, <<"x","n","o","r">> }

\* lexAttrFunction's list: every function name with its opening parenthesis.
allFunctionNames ==
  {n \o <<"(">> : n \in stringFunctionNames \cup numericalFunctionNames
                           \cup gateLogicFunctionNames}

\* "Search for next comma, comment or EOL" / "next comment or EOL":
\* <<index, panic>>.
endOfElemAt(l, withComma) ==
  LET comma   == IF withComma THEN peekAndFind(l, ",") ELSE <<FALSE, 0>>
      comment == peekComment(l, l.currentByteIndex)
  IN  IF comma[1] THEN <<comma[2], FALSE>>
      ELSE IF comment[3] THEN <<0, TRUE>>
      ELSE IF comment[1] THEN <<comment[2], FALSE>>
      ELSE <<peekEOL(l), FALSE>>

lexAttrFunction(l) ==
  LET i   == l.currentByteIndex
      end == endOfElemAt(l, FALSE)
  IN  IF ~HasPreviousItem(l) THEN Panics(l)
      ELSE IF previousItem(l).kind # "keyAttrDef" THEN Ret(FALSE, l)
      ELSE IF end[2] \/ ~SliceOK(l, i, end[1]) THEN Panics(l)
      ELSE IF ~hasPrefixToMany(Join(Slice(l, i, end[1])), allFunctionNames)
           THEN Ret(FALSE, l)
      ELSE emit(l, "keyFunction", i, end[1], (end[1] - 1) - i, FALSE)

\* lexArrayStart without the test "this isn't actually a string".
lexArrayStartInString(l) ==
  LET i       == l.currentByteIndex
      bracket == IF l.currentByte # "[" THEN peekAndFind(l, "[") ELSE <<TRUE, i>>
  IN  IF ~HasPreviousItem(l) THEN Panics(l)
      ELSE IF previousItem(l).kind # "keyAttrDef" THEN Ret(FALSE, l)
      ELSE IF ~bracket[1] THEN Ret(FALSE, l)
      ELSE emit(l, "keyArrayStart", i, bracket[2], bracket[2] - i, FALSE)

lexArrayStart(l) ==
  LET i       == l.currentByteIndex
      bracket == IF l.currentByte # "[" THEN peekAndFind(l, "[") ELSE <<TRUE, i>>
  IN  IF ~HasPreviousItem(l) THEN Panics(l)
      ELSE IF previousItem(l).kind # "keyAttrDef" THEN Ret(FALSE, l)
      ELSE IF l.currentByte = "\"" THEN Ret(FALSE, l)
      ELSE IF ~bracket[1] THEN Ret(FALSE, l)
      ELSE emit(l, "keyArrayStart", i, bracket[2], bracket[2] - i, FALSE)

lexArrayEnd(l) ==
  LET i       == l.currentByteIndex
      bracket == IF l.currentByte # "]" THEN peekAndFind(l, "]") ELSE <<TRUE, i>>
  IN  IF ~HasPreviousItem(l) THEN Panics(l)
      ELSE IF previousItem(l).kind \notin {"keyArrayStart", "keyArrayElem"}
           THEN Ret(FALSE, l)
      ELSE IF l.currentByte = "\"" THEN Ret(FALSE, l)
      ELSE IF peekAndFind(l, ",")[1] THEN Ret(FALSE, l)
      ELSE IF ~bracket[1] THEN Ret(FALSE, l)
      ELSE IF peekEOL(l) < bracket[2] THEN Ret(FALSE, l)
      ELSE emit(l, "keyArrayEnd", i, bracket[2], bracket[2] - i, FALSE)

\* lexArrayElem without the test of the previous item's kind.
lexArrayElemAnywhere(l) ==
  LET i       == l.currentByteIndex
      comma   == peekAndFind(l, ",")
      bracket == peekAndFind(l, "]")
  IN  IF ~HasPreviousItem(l) THEN Panics(l)
      ELSE IF comma[1]
           THEN emit(l, "keyArrayElem", i, comma[2], comma[2] - i, FALSE)
      ELSE IF bracket[1]
           THEN emit(l, "keyArrayElem", i, bracket[2], bracket[2] - i - 1, FALSE)
      ELSE emit(l, "keyArrayElem", i, peekEOL(l), peekEOL(l) - i - 1, TRUE)

lexArrayElem(l) ==
  LET i       == l.currentByteIndex
      comma   == peekAndFind(l, ",")
      bracket == peekAndFind(l, "]")
  IN  IF ~HasPreviousItem(l) THEN Panics(l)
      ELSE IF previousItem(l).kind \notin {"keyArrayStart", "keyArrayElem"}
           THEN Ret(FALSE, l)
      ELSE IF comma[1]
           THEN emit(l, "keyArrayElem", i, comma[2], comma[2] - i, FALSE)
      ELSE IF bracket[1]
           THEN emit(l, "keyArrayElem", i, bracket[2], bracket[2] - i - 1, FALSE)
      ELSE emit(l, "keyArrayElem", i, peekEOL(l), peekEOL(l) - i - 1, TRUE)


(***************************************************************************)
(* strconv, on the texts the model's alphabet can form: decimal digits,    *)
(* an optional sign and one optional point (no exponent, hexadecimal,      *)
(* underscore, "inf" or "nan" forms occur in the model's inputs).          *)
(***************************************************************************)
Digits == {"0", "1", "2", "3", "4", "5", "6", "7", "8", "9"}
DigitVal(c) ==
  CASE c = "0" -> 0 [] c = "1" -> 1 [] c = "2" -> 2 [] c = "3" -> 3
    [] c = "4" -> 4 [] c = "5" -> 5 [] c = "6" -> 6 [] c = "7" -> 7
    [] c = "8" -> 8 [] c = "9" -> 9

AllDigits(s) == \A i \in 1..Len(s) : s[i] \in Digits

RECURSIVE DigitsVal(_)
DigitsVal(s) ==
  IF s = <<>> THEN 0
  ELSE 10 * DigitsVal(SubSeq(s, 1, Len(s) - 1)) + DigitVal(s[Len(s)])

Unsigned(s) == IF s # <<>> /\ s[1] \in {"+", "-"} THEN Tail(s) ELSE s
Sign(s)     == IF s # <<>> /\ s[1] = "-" THEN -1 ELSE 1

\* strconv.Atoi: err == nil, and the value
AtoiOK(s)  == Unsigned(s) # <<>> /\ AllDigits(Unsigned(s))
AtoiVal(s) == Sign(s) * DigitsVal(Unsigned(s))

\* Floating-point values are fractions <<num, den>> in lowest terms with
\* den > 0.  ParseFloat with bitSize 32 rounds the decimal to the nearest
\* float32 (a 24-bit significand); the float64 operations on the model's
\* short numbers are exact.
RECURSIVE GCD(_, _)
GCD(a, b) == IF b = 0 THEN a ELSE GCD(b, a % b)
Abs(a) == IF a < 0 THEN -a ELSE a
Rat(n, d) ==
  LET g == GCD(Abs(n), Abs(d))
  IN  IF d < 0 THEN <<(-n) \div g, (-d) \div g>> ELSE <<n \div g, d \div g>>
RECURSIVE Pow10(_)
Pow10(k) == IF k <= 0 THEN 1 ELSE 10 * Pow10(k - 1)

\* strconv.ParseFloat(s, 32): err == nil for [sign] digits [. digits] with at
\* least one digit; the value is the float32 nearest to the decimal the text
\* denotes (DecimalVal).
PointsOf(s) == {i \in 1..Len(s) : s[i] = "."}
ParseFloatOK(s) ==
  LET u == Unsigned(s)
      d == SelectSeq(u, LAMBDA c : c # ".")
  IN  /\ Cardinality(PointsOf(u)) <= 1
      /\ d # <<>>
      /\ AllDigits(d)
DecimalVal(s) ==
  LET u == Unsigned(s)
      d == SelectSeq(u, LAMBDA c : c # ".")
      k == IF PointsOf(u) = {} THEN 0 ELSE Len(u) - Min(PointsOf(u))
  IN  Rat(Sign(s) * DigitsVal(d), Pow10(k))

\* The nearest float32 of a fraction: the significand m of 24 bits, rounded
\* half to even, over or times the power of two that scales it.
RECURSIVE Pow2(_)
Pow2(k) == IF k <= 0 THEN 1 ELSE 2 * Pow2(k - 1)
RECURSIVE shiftUp(_, _, _)
shiftUp(n, d, k) ==
  IF n * Pow2(k) >= Pow2(23) * d THEN k ELSE shiftUp(n, d, k + 1)
RECURSIVE shiftDown(_, _, _)
shiftDown(n, d, k) ==
  IF n < Pow2(24) * d * Pow2(k) THEN k ELSE shiftDown(n, d, k + 1)
halfEven(a, b) ==
  LET m == a \div b
      r == a % b
  IN  IF 2 * r > b \/ (2 * r = b /\ m % 2 = 1) THEN m + 1 ELSE m
float32Of(q) ==
  LET n    == Abs(q[1])
      sign == IF q[1] < 0 THEN -1 ELSE 1
      up   == shiftUp(n, q[2], 0)
      down == shiftDown(n, q[2], 0)
  IN  IF n = 0 THEN <<0, 1>>
      ELSE IF down > 0
           THEN Rat(sign * halfEven(n, q[2] * Pow2(down)) * Pow2(down), 1)
      ELSE Rat(sign * halfEven(n * Pow2(up), q[2]), Pow2(up))

ParseFloatVal(s) == float32Of(DecimalVal(s))

\* strconv.ParseBool
TrueTexts ==
  { <<"1">>, <<"t">>, <<"T">>, <<"T","R","U","E">>, <<"t","r","u","e">>,
    <<"T","r","u","e">> }
FalseTexts ==
  { <<"0">>, <<"f">>, <<"F">>, <<"F","A","L","S","E">>,
    <<"f","a","l","s","e">>, <<"F","a","l","s","e">> }
ParseBoolOK(s)  == s \in TrueTexts \cup FalseTexts
ParseBoolVal(s) == s \in TrueTexts

(***************************************************************************)
(* Attribute-value rules (all need the previous item to be keyAttrDef).    *)
(***************************************************************************)
\* The opening quote of lexAttrString/lexAttrMultiString: the inner
\* hasOpenQuote shadows the outer one, so only the index is updated.
openQuoteIndexOf(l) ==
  IF l.currentByte # "\"" /\ peekAndFind(l, "\"")[1]
  THEN peekAndFind(l, "\"")[2]
  ELSE l.currentByteIndex

lexAttrString(l) ==
  LET i          == l.currentByteIndex
      openIndex  == openQuoteIndexOf(l)
      closeQuote == peekAndFindAfter(l, "\"", openIndex)
  IN  IF ~HasPreviousItem(l) THEN Panics(l)
      ELSE IF previousItem(l).kind # "keyAttrDef" THEN Ret(FALSE, l)
      ELSE IF ~closeQuote[1] THEN Ret(FALSE, l)
      ELSE emit(l, "keyString", openIndex, closeQuote[2] + 1,
                closeQuote[2] - i, FALSE)

\* The search for the EOL that ends the multiline string: <<finalEOLIndex,
\* lines>>, finalEOLIndex = 0 when there is none.
RECURSIVE finalEOLLoop(_, _, _, _)
finalEOLLoop(l, i, lastLineStartCharIndex, lines) ==
  IF i >= InputLen(l) THEN <<0, lines>>
  ELSE IF At(l, i) = "\n"
       THEN IF \E j \in (lastLineStartCharIndex + 1)..(i - 1) : At(l, j) = "\\"
            THEN finalEOLLoop(l, i + 1, i + 1, lines + 1)
            ELSE <<i, lines + 1>>
  ELSE finalEOLLoop(l, i + 1, lastLineStartCharIndex, lines)

\* "Change 4 spaces into a \t": the loop ranges over the first n indices of
\* the backing array a while the slice, of current length curLen, is
\* rewritten in place (a is 1-based here: a[i + 1] is element i).
RECURSIVE tabLoop(_, _, _, _)
tabLoop(a, i, n, curLen) ==
  IF i >= n THEN [panic |-> FALSE, value |-> SubSeq(a, 1, curLen)]
  ELSE IF i <= curLen - TabWidth /\ a[i + 1] # "\n"
          /\ TrimSpace(SubSeq(a, i + 1, i + 3)) = <<>>
       THEN IF i = 0 THEN [panic |-> TRUE, value |-> <<>>]
            ELSE tabLoop([k \in 1..Len(a) |->
                            IF k = i THEN "\t"
                            ELSE IF k >= i + 1 /\ k <= curLen - 3 THEN a[k + 3]
                            ELSE a[k]],
                         i + 1, n, curLen - 3)
  ELSE tabLoop(a, i + 1, n, curLen)

lexAttrMultiString(l) ==
  LET i          == l.currentByteIndex
      openIndex  == openQuoteIndexOf(l)
      final      == finalEOLLoop(l, i + 1, i + 1, 0)
      copied     == Slice(l, i, final[1])
      tabbed     == tabLoop(copied, 0, Len(copied), Len(copied))
  IN  IF ~HasPreviousItem(l) THEN Panics(l)
      ELSE IF previousItem(l).kind # "keyAttrDef" THEN Ret(FALSE, l)
      ELSE IF ~peekAndFindAfter(l, "\"", openIndex)[1] THEN Ret(FALSE, l)
      ELSE IF ~peekAndFindAfter(l, "\\", openIndex)[1] THEN Ret(FALSE, l)
      ELSE IF final[1] = 0 THEN Panics(l)
      ELSE IF tabbed.panic THEN Panics(l)
      ELSE next([l EXCEPT !.proto = [kind   |-> "keyMultiString",
                                     value  |-> tabbed.value,
                                     Length |-> final[1] - i],
                          !.currentLine = @ + final[2]],
                FALSE, TRUE)

\* The scan for "if" / "for" between the current index and the EOL:
\* <<found, panic>>.
RECURSIVE conditionLoop(_, _)
conditionLoop(l, i) ==
  IF i >= peekEOL(l) THEN <<FALSE, FALSE>>
  ELSE IF At(l, i) = "i" /\ At(l, i + 1) = "f" THEN <<TRUE, FALSE>>
  ELSE IF At(l, i) = "f" /\ At(l, i + 1) = "o"
       THEN IF i + 2 >= InputLen(l) THEN <<FALSE, TRUE>>
            ELSE IF At(l, i + 2) = "r" THEN <<TRUE, FALSE>>
            ELSE conditionLoop(l, i + 1)
  ELSE conditionLoop(l, i + 1)

lexAttrCondition(l) ==
  LET i     == l.currentByteIndex
      found == conditionLoop(l, i)
      end   == endOfElemAt(l, TRUE)
  IN  IF ~HasPreviousItem(l) THEN Panics(l)
      ELSE IF previousItem(l).kind # "keyAttrDef" THEN Ret(FALSE, l)
      ELSE IF found[2] THEN Panics(l)
      ELSE IF ~found[1] THEN Ret(FALSE, l)
      ELSE IF end[2] THEN Panics(l)
      ELSE emit(l, "keyCondition", i, end[1], (end[1] - 1) - i, FALSE)

ArithmeticSymbols == {"+", "-", "*", "/", "%"}

lexAttrArithmetic(l) ==
  LET i   == l.currentByteIndex
      end == endOfElemAt(l, TRUE)
  IN  IF ~HasPreviousItem(l) THEN Panics(l)
      ELSE IF previousItem(l).kind # "keyAttrDef" THEN Ret(FALSE, l)
      ELSE IF ~peekAndFindMany(l, ArithmeticSymbols) THEN Ret(FALSE, l)
      ELSE IF end[2] THEN Panics(l)
      ELSE emit(l, "keyArithmetic", i, end[1], (end[1] - 1) - i, FALSE)

ComparisonSymbols == {"=", ">", "<"}

lexAttrComparison(l) ==
  LET i   == l.currentByteIndex
      end == endOfElemAt(l, TRUE)
  IN  IF ~HasPreviousItem(l) THEN Panics(l)
      ELSE IF previousItem(l).kind # "keyAttrDef" THEN Ret(FALSE, l)
      ELSE IF ~peekAndFindMany(l, ComparisonSymbols) THEN Ret(FALSE, l)
      ELSE IF end[2] THEN Panics(l)
      ELSE emit(l, "keyComparison", i, end[1], (end[1] - 1) - i, FALSE)

lexAttrInt(l) ==
  LET i == l.currentByteIndex
      v == searchNonWhitespacedValue(l)
  IN  IF ~HasPreviousItem(l) THEN Panics(l)
      ELSE IF previousItem(l).kind # "keyAttrDef" THEN Ret(FALSE, l)
      ELSE IF v[1] = <<>> THEN Ret(FALSE, l)
      ELSE IF ~AtoiOK(v[1]) THEN Ret(FALSE, l)
      ELSE emit(l, "keyInt", v[2], v[3], v[3] - i, FALSE)

lexAttrFloat(l) ==
  LET i == l.currentByteIndex
      v == searchNonWhitespacedValue(l)
  IN  IF ~HasPreviousItem(l) THEN Panics(l)
      ELSE IF previousItem(l).kind # "keyAttrDef" THEN Ret(FALSE, l)
      ELSE IF v[1] = <<>> THEN Ret(FALSE, l)
      ELSE IF ~ParseFloatOK(v[1]) THEN Ret(FALSE, l)
      ELSE emit(l, "keyFloat", v[2], v[3], (v[3] - 1) - i, FALSE)

lexAttrBool(l) ==
  LET i == l.currentByteIndex
      v == searchNonWhitespacedValue(l)
  IN  IF ~HasPreviousItem(l) THEN Panics(l)
      ELSE IF previousItem(l).kind # "keyAttrDef" THEN Ret(FALSE, l)
      ELSE IF v[1] = <<>> THEN Ret(FALSE, l)
      ELSE IF ~ParseBoolOK(v[1]) THEN Ret(FALSE, l)
      ELSE emit(l, "keyBool", v[2], v[3], (v[3] - 1) - i, FALSE)

lexAttrCall(l) ==
  LET i == l.currentByteIndex
      v == searchNonWhitespacedValue(l)
  IN  IF ~HasPreviousItem(l) THEN Panics(l)
      ELSE IF previousItem(l).kind # "keyAttrDef" THEN Ret(FALSE, l)
      ELSE IF v[1] = <<>> THEN Ret(FALSE, l)
      ELSE emit(l, "keyAttrCall", v[2], v[3], v[3] - i, FALSE)

lexError(l) ==
  emit(l, "keyError", l.currentByteIndex, l.currentByteIndex + 1, 1, FALSE)

\* lexByte: the rules in their fixed order; the first that matches (or
\* panics) decides.  Only lexEOF changes the lexer without matching.
\* "if l.lexX() { return }": the first rule that matches (or panics) decides.
OrElse(r, others) == IF r.ok \/ r.panic THEN r ELSE others

\* lexByte: lexEOF raises the flag, then the rules in their order, ending
\* with lexError.
lexByte(l) ==
  OrElse(lexTab(lexEOF(l).l),
  OrElse(lexEOL(lexEOF(l).l),
  OrElse(lexWhitespace(lexEOF(l).l),
  OrElse(lexComment(lexEOF(l).l),
  OrElse(lexAttributeDef(lexEOF(l).l),
  OrElse(lexBlockStart(lexEOF(l).l),
  OrElse(lexBlockEnd(lexEOF(l).l),
  OrElse(lexAttrFunction(lexEOF(l).l),
  OrElse(lexArrayStart(lexEOF(l).l),
  OrElse(lexArrayEnd(lexEOF(l).l),
  OrElse(lexArrayElem(lexEOF(l).l),
  OrElse(lexAttrMultiString(lexEOF(l).l),
  OrElse(lexAttrString(lexEOF(l).l),
  OrElse(lexAttrCondition(lexEOF(l).l),
  OrElse(lexAttrArithmetic(lexEOF(l).l),
  OrElse(lexAttrComparison(lexEOF(l).l),
  OrElse(lexAttrInt(lexEOF(l).l),
  OrElse(lexAttrFloat(lexEOF(l).l),
  OrElse(lexAttrBool(lexEOF(l).l),
  OrElse(lexAttrCall(lexEOF(l).l),
  lexError(lexEOF(l).l)))))))))))))))))))))

\* lexInput: lexByte until atEOF (or a panic).
RECURSIVE lexInput(_)
lexInput(l) ==
  IF l.atEOF THEN Ret(TRUE, l)
  ELSE LET r == lexByte(l)
       IN  IF r.panic THEN r ELSE lexInput(r.l)


(***************************************************************************)
(* The value transformer.  A value is the dynamic Go value of the          *)
(* interface{}: [t |-> "string" | "int" | "float64" | "bool" | "array" |   *)
(* "nil", v |-> ...].  Every transformer returns [panic, value].           *)
(***************************************************************************)
StringV(s) == [t |-> "string", v |-> s]
IntV(n)    == [t |-> "int", v |-> n]
FloatV(q)  == [t |-> "float64", v |-> q]
BoolV(b)   == [t |-> "bool", v |-> b]
ArrayV(a)  == [t |-> "array", v |-> a]
NilV       == [t |-> "nil", v |-> <<>>]

Value(v)   == [panic |-> FALSE, value |-> v]
ValuePanic == [panic |-> TRUE, value |-> NilV]

\* math.Round(val * precision) / precision with precision = 10^digits:
\* rounding half away from zero.
RECURSIVE scaledRound(_, _, _, _)
scaledRound(whole, r, den, digits) ==
  IF digits = 0 THEN whole + (IF 2 * r >= den THEN 1 ELSE 0)
  ELSE scaledRound(whole * 10 + ((r * 10) \div den), (r * 10) % den,
                   den, digits - 1)
roundToPrecision(q, digits) ==
  Rat((IF q[1] < 0 THEN -1 ELSE 1)
        * scaledRound(Abs(q[1]) \div q[2], Abs(q[1]) % q[2], q[2], digits),
      Pow10(digits))

\* "precision := math.Pow(10, float64((len(item) - 1)))": the exponent.
precisionDigits(s) == Len(s) - 1

\* The float of a literal text: ParseFloat, rounded with that precision.
floatOfText(s) == roundToPrecision(ParseFloatVal(s), precisionDigits(s))

\* transformItemMultiString: the loop over the characters of the item.
RECURSIVE multiStringLoop(_, _, _, _, _)
multiStringLoop(item, i, foundValidElement, validElemStartIndex, multiStrItems) ==
  IF i >= Len(item) THEN [panic |-> FALSE, items |-> multiStrItems]
  ELSE LET char == item[i + 1]
           sep  == char = "\t" \/ char = "\n"
       IN  IF foundValidElement /\ sep
           THEN IF i - 2 < validElemStartIndex
                THEN [panic |-> TRUE, items |-> multiStrItems]
                ELSE multiStringLoop(item, i + 1, FALSE, validElemStartIndex,
                       Append(multiStrItems,
                              SubSeq(item, validElemStartIndex + 1, i - 2)))
           ELSE IF foundValidElement /\ i = Len(item) - 1
           THEN multiStringLoop(item, i + 1, FALSE, validElemStartIndex,
                  Append(multiStrItems, SubSeq(item, validElemStartIndex + 1, i)))
           ELSE IF ~foundValidElement /\ ~sep
           THEN multiStringLoop(item, i + 1, TRUE, i, multiStrItems)
           ELSE multiStringLoop(item, i + 1, foundValidElement,
                                validElemStartIndex, multiStrItems)

\* strings.Join(elems, sep)
RECURSIVE JoinWith(_, _)
JoinWith(elems, sep) ==
  IF elems = <<>> THEN <<>>
  ELSE IF Len(elems) = 1 THEN elems[1]
  ELSE elems[1] \o sep \o JoinWith(Tail(elems), sep)

transformItemMultiString(item) ==
  LET r == multiStringLoop(item, 0, FALSE, 0, <<>>)
  IN  IF r.panic THEN ValuePanic
      ELSE Value(StringV(JoinWith([k \in 1..Len(r.items) |->
                                     Trim(r.items[k], "\"")], <<" ">>)))

\* strings.Split(s, ", ")
RECURSIVE SplitCommaSpace(_)
SplitCommaSpace(s) ==
  LET at == {i \in 1..(Len(s) - 1) : s[i] = "," /\ s[i + 1] = " "}
  IN  IF at = {} THEN <<s>>
      ELSE <<SubSeq(s, 1, Min(at) - 1)>>
             \o SplitCommaSpace(SubSeq(s, Min(at) + 2, Len(s)))

\* One free-standing array element: int, float, bool, else a string.
arrayElem(elem) ==
  IF AtoiOK(elem) THEN IntV(AtoiVal(elem))
  ELSE IF ParseFloatOK(elem) THEN FloatV(floatOfText(elem))
  ELSE IF ParseBoolOK(elem) THEN BoolV(ParseBoolVal(elem))
  ELSE StringV(Trim(elem, "\""))

transformItemArray(item) ==
  LET freeElems == Tail(SplitCommaSpace(TrimRight(TrimLeft(item, "["), "]")))
  IN  Value(ArrayV([k \in 1..Len(freeElems) |-> arrayElem(freeElems[k])]))


(***************************************************************************)
(* transformItemArithmetic.  An element of the operand/operator arrays is  *)
(* [sym |-> TRUE, c |-> symbol] or [sym |-> FALSE, q |-> fraction]; a      *)
(* fraction with denominator 0 stands for +Inf (<<1,0>>), -Inf (<<-1,0>>)  *)
(* or NaN (<<0,0>>), the results of a float64 division by zero.            *)
(***************************************************************************)
EvalSymbols == {"+", "-", "*", "/"}

SymE(c) == [sym |-> TRUE, c |-> c, q |-> <<0, 1>>]
NumE(q) == [sym |-> FALSE, c |-> "", q |-> q]

\* strconv.ParseFloat(fmt.Sprint(e), 32) with the error dropped: 0 for a symbol
operandOf(e) == IF e.sym THEN <<0, 1>> ELSE e.q

ratAdd(a, b) == Rat(a[1] * b[2] + b[1] * a[2], a[2] * b[2])
ratSub(a, b) == Rat(a[1] * b[2] - b[1] * a[2], a[2] * b[2])
ratMul(a, b) == Rat(a[1] * b[1], a[2] * b[2])
ratDiv(a, b) ==
  IF b[1] = 0
  THEN (IF a[1] > 0 THEN <<1, 0>> ELSE IF a[1] < 0 THEN <<-1, 0>> ELSE <<0, 0>>)
  ELSE Rat(a[1] * b[2], a[2] * b[1])

\* The first j > i holding a space or an arithmetic symbol, else 0.
firstNumberEnd(item, i) ==
  LET at == {j \in (i + 1)..(Len(item) - 1) :
               item[j + 1] \in Whitespace \cup EvalSymbols}
  IN  IF at = {} THEN 0 ELSE Min(at)

\* The tokenizing loop: [panic, arr, hasFloat].
RECURSIVE arithmeticSplit(_, _, _, _, _)
arithmeticSplit(item, i, skipItem, arr, hasFloat) ==
  IF i >= Len(item) THEN [panic |-> FALSE, arr |-> arr, hasFloat |-> hasFloat]
  ELSE LET v == item[i + 1] IN
  IF skipItem # 0 THEN arithmeticSplit(item, i + 1, skipItem - 1, arr, hasFloat)
  ELSE IF v = " " THEN arithmeticSplit(item, i + 1, 0, arr, hasFloat)
  ELSE IF v \in EvalSymbols
  THEN IF arr = <<>> \/ arr[1].sym
       THEN [panic |-> TRUE, arr |-> arr, hasFloat |-> hasFloat]
       ELSE arithmeticSplit(item, i + 1, 0, Append(arr, SymE(v)), hasFloat)
  ELSE
  LET endOfElem     == firstNumberEnd(item, i)
      first         == arr = <<>>
      addItemNumber == IF first THEN SubSeq(item, i + 1, endOfElem)
                       ELSE SubSeq(item, i + 1, Len(item))
      skip          == IF first THEN Len(addItemNumber) - 1
                       ELSE Len(addItemNumber)
  IN
  IF first /\ endOfElem < i
    THEN [panic |-> TRUE, arr |-> arr, hasFloat |-> hasFloat]
  ELSE IF ~AtoiOK(addItemNumber) /\ ~ParseFloatOK(addItemNumber)
    THEN [panic |-> TRUE, arr |-> arr, hasFloat |-> hasFloat]
  ELSE IF Len(arr) >= 2 /\ ~arr[Len(arr)].sym
    THEN [panic |-> TRUE, arr |-> arr, hasFloat |-> hasFloat]
  ELSE arithmeticSplit(item, i + 1, skip,
         Append(arr, NumE(IF AtoiOK(addItemNumber)
                          THEN <<AtoiVal(addItemNumber), 1>>
                          ELSE ParseFloatVal(addItemNumber))),
         hasFloat \/ ~AtoiOK(addItemNumber))

\* One pass of "perform calculations": the loop ranges over the array `over`
\* (index i), reads the operands from it and, for each symbol of `symbols`,
\* replaces the working array by work[i+1:] with the result in front.
RECURSIVE arithmeticPass(_, _, _, _)
arithmeticPass(over, i, work, symbols) ==
  IF i >= Len(over) THEN [panic |-> FALSE, arr |-> work]
  ELSE LET v == over[i + 1] IN
  IF ~(v.sym /\ v.c \in symbols) THEN arithmeticPass(over, i + 1, work, symbols)
  ELSE IF i - 1 < 0 \/ i + 1 >= Len(over) THEN [panic |-> TRUE, arr |-> work]
  ELSE IF i + 1 > Len(work) THEN [panic |-> TRUE, arr |-> work]
  ELSE IF i + 1 = Len(work) THEN [panic |-> TRUE, arr |-> work]
  ELSE LET val1   == operandOf(over[i])
           val2   == operandOf(over[i + 2])
           result == CASE v.c = "*" -> ratMul(val1, val2)
                       [] v.c = "/" -> ratDiv(val1, val2)
                       [] v.c = "+" -> ratAdd(val1, val2)
                       [] v.c = "-" -> ratSub(val1, val2)
       IN  arithmeticPass(over, i + 1,
             <<NumE(result)>> \o SubSeq(work, i + 3, Len(work)), symbols)

\* fmt.Sprint of a float64 writes an exponent ("1e+06") from this magnitude.
SprintExponentFrom == 1000000

\* strconv.Atoi(fmt.Sprint(x)) with the error dropped, x a float64: the text
\* of x is a decimal integer only when x is whole and below the magnitude
\* written with an exponent; for any other text Atoi fails and gives 0.
atoiOfSprint(q) ==
  IF q[2] = 1 /\ Abs(q[1]) < SprintExponentFrom THEN q[1] ELSE 0

\* The result: one element left, an int unless an operand was a float.
arithmeticValue(hasFloat, ops) ==
  IF ops.panic THEN ValuePanic
  ELSE IF Len(ops.arr) > 1 \/ Len(ops.arr) = 0 THEN ValuePanic
  ELSE IF ~hasFloat
       THEN Value(IntV(atoiOfSprint(operandOf(ops.arr[1]))))
  ELSE Value(FloatV(operandOf(ops.arr[1])))

\* "+" and "-" over what the pass of "*" and "/" left
arithmeticSums(hasFloat, products) ==
  IF products.panic THEN ValuePanic
  ELSE arithmeticValue(hasFloat,
         arithmeticPass(products.arr, 0, products.arr, {"+", "-"}))

\* "*" and "/" over the split expression
arithmeticProducts(split) ==
  IF split.panic THEN ValuePanic
  ELSE arithmeticSums(split.hasFloat,
         arithmeticPass(split.arr, 0, split.arr, {"*", "/"}))

transformItemArithmetic(item) ==
  arithmeticProducts(arithmeticSplit(item, 0, 0, <<>>, FALSE))


(***************************************************************************)
(* transformItemComparison                                                 *)
(***************************************************************************)
ComparatorStarts == {"=", "!", ">", "<"}

\* The first j > i holding a space or a comparator character, else 0.
firstOperandEnd(item, i) ==
  LET at == {j \in (i + 1)..(Len(item) - 1) :
               item[j + 1] \in Whitespace \cup ComparatorStarts}
  IN  IF at = {} THEN 0 ELSE Min(at)

\* The tokenizing loop: [panic, arr].
RECURSIVE comparisonSplit(_, _, _, _)
comparisonSplit(item, i, skipItem, arr) ==
  IF i >= Len(item) THEN [panic |-> FALSE, arr |-> arr]
  ELSE LET v == item[i + 1] IN
  IF v = " " THEN comparisonSplit(item, i + 1, skipItem, arr)
  ELSE IF skipItem THEN comparisonSplit(item, i + 1, FALSE, arr)
  ELSE IF v \in ComparatorStarts
  THEN IF i + 1 >= Len(item) THEN [panic |-> TRUE, arr |-> arr]
       ELSE IF arr = <<>> THEN [panic |-> TRUE, arr |-> arr]
       ELSE IF item[i + 2] = "="
            THEN comparisonSplit(item, i + 1, TRUE,
                                 Append(arr, SubSeq(item, i + 1, i + 2)))
            ELSE comparisonSplit(item, i + 1, FALSE,
                                 Append(arr, SubSeq(item, i + 1, i + 1)))
  ELSE IF arr = <<>>
  THEN IF firstOperandEnd(item, i) < i THEN [panic |-> TRUE, arr |-> arr]
       ELSE comparisonSplit(item, i + 1, FALSE,
              Append(arr, SubSeq(item, i + 1, firstOperandEnd(item, i))))
  ELSE IF Len(arr) > 1 /\ Len(arr) < 3
  THEN comparisonSplit(item, i + 1, FALSE,
                       Append(arr, SubSeq(item, i + 1, Len(item))))
  ELSE comparisonSplit(item, i + 1, FALSE, arr)

ratLess(a, b) == a[1] * b[2] < b[1] * a[2]

\* The comparison of two numbers.
compareFloats(cmp, f1, f2) ==
  CASE cmp = <<"=", "=">> -> f1 = f2
    [] cmp = <<"!", "=">> -> f1 # f2
    [] cmp = <<">">>      -> ratLess(f2, f1)
    [] cmp = <<">", "=">> -> ~ratLess(f1, f2)
    [] cmp = <<"<">>      -> ratLess(f1, f2)
    [] cmp = <<"<", "=">> -> ~ratLess(f2, f1)
    [] OTHER              -> FALSE

\* The comparison of the operands a and b: booleans compare only with == and
\* !=, and only with each other; everything else must parse as a float.
compareOperands(cmp, a, b) ==
  IF (ParseBoolOK(a) \/ ParseBoolOK(b))
     /\ cmp \notin {<<"=", "=">>, <<"!", "=">>}
  THEN ValuePanic
  ELSE IF (ParseBoolOK(a) \/ ParseBoolOK(b))
          /\ ~(ParseBoolOK(a) /\ ParseBoolOK(b))
  THEN ValuePanic
  ELSE IF ParseBoolOK(a) /\ ParseBoolOK(b)
  THEN Value(BoolV(IF cmp = <<"=", "=">>
                   THEN ParseBoolVal(a) = ParseBoolVal(b)
                   ELSE ParseBoolVal(a) # ParseBoolVal(b)))
  ELSE IF ~ParseFloatOK(a) \/ ~ParseFloatOK(b) THEN ValuePanic
  ELSE Value(BoolV(compareFloats(cmp, ParseFloatVal(a), ParseFloatVal(b))))

comparisonOf(split) ==
  IF split.panic THEN ValuePanic
  ELSE IF Len(split.arr) > 3 THEN ValuePanic
  ELSE IF Len(split.arr) < 3 THEN ValuePanic        \* comparisonArray[2]
  ELSE compareOperands(split.arr[2], split.arr[1], split.arr[3])

transformItemComparison(item) ==
  comparisonOf(comparisonSplit(item, 0, FALSE, <<>>))

(***************************************************************************)
(* The built-in functions (parser_functions.go).                           *)
(***************************************************************************)
\* strings.ToUpper / strings.ToLower over the ASCII letters
ToUpper(s) ==
  LET lower == <<"a","b","c","d","e","f","g","h","i","j","k","l","m",
                 "n","o","p","q","r","s","t","u","v","w","x","y","z">>
      upper == <<"A","B","C","D","E","F","G","H","I","J","K","L","M",
                 "N","O","P","Q","R","S","T","U","V","W","X","Y","Z">>
  IN  [k \in 1..Len(s) |->
         IF \E j \in 1..26 : lower[j] = s[k]
         THEN upper[CHOOSE j \in 1..26 : lower[j] = s[k]] ELSE s[k]]

ToLower(s) ==
  LET lower == <<"a","b","c","d","e","f","g","h","i","j","k","l","m",
                 "n","o","p","q","r","s","t","u","v","w","x","y","z">>
      upper == <<"A","B","C","D","E","F","G","H","I","J","K","L","M",
                 "N","O","P","Q","R","S","T","U","V","W","X","Y","Z">>
  IN  [k \in 1..Len(s) |->
         IF \E j \in 1..26 : upper[j] = s[k]
         THEN lower[CHOOSE j \in 1..26 : upper[j] = s[k]] ELSE s[k]]

\* strings.Contains
Contains(s, sub) ==
  \E k \in 0..(Len(s) - Len(sub)) : SubSeq(s, k + 1, k + Len(sub)) = sub

\* The switch of stringFunctions over the trimmed parameters.
stringFunctionOf(funcName, stringValues) ==
  CASE funcName = <<"u","p","p","e","r">> ->
         IF Len(stringValues) < 1 THEN ValuePanic
         ELSE Value(StringV(ToUpper(stringValues[1])))
    [] funcName = <<"l","o","w","e","r">> ->
         IF Len(stringValues) < 1 THEN ValuePanic
         ELSE Value(StringV(ToLower(stringValues[1])))
    [] funcName = <<"a","p","p","e","n","d">> ->
         IF Len(stringValues) < 2 THEN ValuePanic
         ELSE Value(StringV(stringValues[1] \o stringValues[2]))
    [] funcName = <<"c","o","n","c","a","t">> -> Value(NilV)
    [] funcName = <<"c","o","n","t","a","i","n","s">> ->
         IF Len(stringValues) < 2 THEN ValuePanic
         ELSE Value(BoolV(Contains(stringValues[1], stringValues[2])))
    [] funcName = <<"l","e","n","g","t","h">> ->
         IF Len(stringValues) < 1 THEN ValuePanic
         ELSE Value(IntV(Len(stringValues[1])))
    [] OTHER -> ValuePanic

stringFunctions(funcName, funcParams) ==
  stringFunctionOf(funcName,
    [k \in 1..Len(funcParams) |-> Trim(TrimSpace(funcParams[k]), "\"")])

\* Fractions as float64 results: floor, truncation, power, modulo.
ratFloor(q)  == IF q[1] >= 0 THEN q[1] \div q[2]
                ELSE -((-q[1] + q[2] - 1) \div q[2])
ratTrunc(q)  == IF q[1] >= 0 THEN q[1] \div q[2] ELSE -((-q[1]) \div q[2])
RECURSIVE ratPowNat(_, _)
ratPowNat(q, k) == IF k = 0 THEN <<1, 1>> ELSE ratMul(q, ratPowNat(q, k - 1))
\* math.Pow for an integral exponent (the exponents of the model's inputs)
mathPow(x, y) ==
  CASE y[2] = 1 /\ y[1] >= 0 -> ratPowNat(x, y[1])
    [] y[2] = 1 /\ y[1] < 0  -> ratDiv(<<1, 1>>, ratPowNat(x, -y[1]))
\* math.Mod: the result has the sign of x; NaN for y = 0
mathMod(x, y) ==
  IF y[1] = 0 THEN <<0, 0>>
  ELSE ratSub(x, ratMul(y, <<ratTrunc(ratDiv(x, y)), 1>>))
\* math.Floor of a float64
mathFloor(q) == IF q[2] # 0 THEN <<ratFloor(q), 1>> ELSE q
\* int(result): truncation; the conversion of +-Inf or NaN is
\* implementation-defined in Go and is kept as a value of its own.
intOf(q) == IF q[2] # 0 THEN IntV(ratTrunc(q))
            ELSE [t |-> "int", v |-> "implementation-defined"]

\* The parameter loop of numericalFunctions: a parameter that is no number
\* leaves its float at the zero value.
numericalParam(v) ==
  IF ParseFloatOK(TrimSpace(v)) THEN floatOfText(TrimSpace(v)) ELSE <<0, 1>>

\* The switch of numericalFunctions over the two float parameters.
numericalResult(funcName, x, y) ==
  CASE funcName = <<"p","o","w","e","r">> -> mathPow(x, y)
    [] funcName = <<"f","l","o","o","r">> -> mathFloor(ratDiv(x, y))
    [] funcName = <<"r","e","m","a","i","n","d","e","r">> -> mathMod(x, y)

\* numericalValue that narrows every result.
numericalValueNarrowing(hasInt, result) == Value(intOf(result))

\* "if hasInt { return int(result) }; return result"
numericalValue(hasInt, result) ==
  IF hasInt THEN Value(intOf(result)) ELSE Value(FloatV(result))

\* numericalFunctions with hasInt raised only when every parameter is an
\* integer.
numericalFunctionsEveryInt(funcName, funcParams) ==
  IF funcName \notin {<<"p","o","w","e","r">>, <<"f","l","o","o","r">>,
                      <<"r","e","m","a","i","n","d","e","r">>}
  THEN ValuePanic
  ELSE IF Len(funcParams) < 2 THEN ValuePanic
  ELSE numericalValue(
         \A k \in 1..Len(funcParams) : AtoiOK(TrimSpace(funcParams[k])),
         numericalResult(funcName, numericalParam(funcParams[1]),
                                   numericalParam(funcParams[2])))

numericalFunctions(funcName, funcParams) ==
  IF funcName \notin {<<"p","o","w","e","r">>, <<"f","l","o","o","r">>,
                      <<"r","e","m","a","i","n","d","e","r">>}
  THEN ValuePanic
  ELSE IF Len(funcParams) < 2 THEN ValuePanic
  ELSE numericalValue(
         \E k \in 1..Len(funcParams) : AtoiOK(TrimSpace(funcParams[k])),
         numericalResult(funcName, numericalParam(funcParams[1]),
                                   numericalParam(funcParams[2])))

\* gateLogicResult with the xor case written as the equality of the and case.
gateLogicResultXorAsEquality(funcName, a, b) ==
  CASE funcName = <<"a","n","d">>     -> a = b
    [] funcName = <<"o","r">>         -> a \/ b
    [] funcName = <<"n","a","n","d">> -> ~(a = b)
    [] funcName = <<"n","o","r">>     -> ~(a \/ b)
    [] funcName = <<"x","o","r">>     -> a = b
    [] funcName = <<"x","n","o","r">> -> ~(a # b)

\* The switch of gateLogicFunctions over the two boolean parameters.
gateLogicResult(funcName, a, b) ==
  CASE funcName = <<"a","n","d">>     -> a = b
    [] funcName = <<"o","r">>         -> a \/ b
    [] funcName = <<"n","a","n","d">> -> ~(a = b)
    [] funcName = <<"n","o","r">>     -> ~(a \/ b)
    [] funcName = <<"x","o","r">>     -> a # b
    [] funcName = <<"x","n","o","r">> -> ~(a # b)

gateLogicFunctions(funcName, funcParams) ==
  IF \E k \in 1..Len(funcParams) : ~ParseBoolOK(TrimSpace(funcParams[k]))
  THEN ValuePanic
  ELSE IF funcName \notin {<<"a","n","d">>, <<"o","r">>, <<"n","a","n","d">>,
                           <<"n","o","r">>, <<"x","o","r">>,
                           <<"x","n","o","r">>}
  THEN ValuePanic
  ELSE IF Len(funcParams) < 2 THEN ValuePanic
  ELSE Value(BoolV(gateLogicResult(funcName,
                     ParseBoolVal(TrimSpace(funcParams[1])),
                     ParseBoolVal(TrimSpace(funcParams[2])))))


(***************************************************************************)
(* transformItemFunction and transformItem                                 *)
(***************************************************************************)
\* The parameters of a call: [panic, params].  insideBrackets is declared
\* inside the loop body, so it is false at every comma test.
funcParamsOf(item, funcNameIndex, funcName) ==
  LET n      == Len(item)
      commas == {i \in funcNameIndex..(n - 1) : item[i + 1] = ","}
      c      == Min(commas)
  IN  IF funcName \in singleParamFunctions
      THEN IF funcNameIndex + 1 > n - 1 THEN [panic |-> TRUE, params |-> <<>>]
           ELSE [panic |-> FALSE,
                 params |-> <<SubSeq(item, funcNameIndex + 2, n - 1)>>]
      ELSE IF commas = {} THEN [panic |-> FALSE, params |-> <<>>]
      ELSE IF c + 1 > n - 1 THEN [panic |-> TRUE, params |-> <<>>]
      ELSE [panic |-> FALSE,
            params |-> <<SubSeq(item, funcNameIndex + 2, c),
                         SubSeq(item, c + 2, n - 1)>>]

\* The call of the function named funcName over its parameters.
callFunction(funcName, p) ==
  IF p.panic THEN ValuePanic
  ELSE IF funcName \in stringFunctionNames
       THEN stringFunctions(funcName, p.params)
  ELSE IF funcName \in numericalFunctionNames
       THEN numericalFunctions(funcName, p.params)
  ELSE IF funcName \in gateLogicFunctionNames
       THEN gateLogicFunctions(funcName, p.params)
  ELSE ValuePanic

\* The text before the "(" at index funcNameIndex names the function.
functionAt(item, funcNameIndex) ==
  callFunction(TrimSpace(SubSeq(item, 1, funcNameIndex)),
               funcParamsOf(item, funcNameIndex,
                            TrimSpace(SubSeq(item, 1, funcNameIndex))))

transformItemFunction(item) ==
  IF \A i \in 0..(Len(item) - 1) : item[i + 1] # "(" THEN ValuePanic
  ELSE functionAt(item, Min({i \in 0..(Len(item) - 1) : item[i + 1] = "("}))

\* transformItem without the case of keyCondition: a condition is an unknown
\* kind.
transformItemRejectingCondition(item, kind) ==
  IF kind = "keyString" THEN Value(StringV(Trim(item, "\"")))
  ELSE IF kind = "keyMultiString" THEN transformItemMultiString(item)
  ELSE IF kind = "keyInt"
       THEN IF ~AtoiOK(item) THEN ValuePanic ELSE Value(IntV(AtoiVal(item)))
  ELSE IF kind = "keyFloat"
       THEN IF ~ParseFloatOK(item) THEN ValuePanic
            ELSE Value(FloatV(floatOfText(item)))
  ELSE IF kind = "keyBool"
       THEN IF ~ParseBoolOK(item) THEN ValuePanic
            ELSE Value(BoolV(ParseBoolVal(item)))
  ELSE IF kind = "keyArrayStart" \/ kind = "keyArrayElem"
       THEN transformItemArray(item)
  ELSE IF kind = "keyArithmetic" THEN transformItemArithmetic(item)
  ELSE IF kind = "keyComparison" THEN transformItemComparison(item)
  ELSE IF kind = "keyFunction" THEN transformItemFunction(item)
  ELSE ValuePanic

transformItem(item, kind) ==
  IF kind = "keyString" THEN Value(StringV(Trim(item, "\"")))
  ELSE IF kind = "keyMultiString" THEN transformItemMultiString(item)
  ELSE IF kind = "keyInt"
       THEN IF ~AtoiOK(item) THEN ValuePanic ELSE Value(IntV(AtoiVal(item)))
  ELSE IF kind = "keyFloat"
       THEN IF ~ParseFloatOK(item) THEN ValuePanic
            ELSE Value(FloatV(floatOfText(item)))
  ELSE IF kind = "keyBool"
       THEN IF ~ParseBoolOK(item) THEN ValuePanic
            ELSE Value(BoolV(ParseBoolVal(item)))
  ELSE IF kind = "keyArrayStart" \/ kind = "keyArrayElem"
       THEN transformItemArray(item)
  ELSE IF kind = "keyArithmetic" THEN transformItemArithmetic(item)
  ELSE IF kind = "keyComparison" THEN transformItemComparison(item)
  ELSE IF kind = "keyCondition" THEN Value(NilV)
  ELSE IF kind = "keyFunction" THEN transformItemFunction(item)
  ELSE ValuePanic

(***************************************************************************)
(* The parser: attribute kinds, blocks, and the steps of parseItem.        *)
(***************************************************************************)
\* keyKindToAttrKind without the case of keyCondition.
keyKindToAttrKindNoCondition(k) ==
  CASE k = "keyString"      -> "attrString"
    [] k = "keyMultiString" -> "attrString"
    [] k = "keyInt"         -> "attrInt"
    [] k = "keyFloat"       -> "attrFloat"
    [] k = "keyBool"        -> "attrBool"
    [] k = "keyArrayStart"  -> "attrArray"
    [] k = "keyArrayElem"   -> "attrArray"
    [] k = "keyArithmetic"  -> "attrArithmetic"
    [] k = "keyComparison"  -> "attrComparison"
    [] k = "keyFunction"    -> "attrFunction"
    [] OTHER                -> "attrNIL"

keyKindToAttrKind(k) ==
  CASE k = "keyString"      -> "attrString"
    [] k = "keyMultiString" -> "attrString"
    [] k = "keyInt"         -> "attrInt"
    [] k = "keyFloat"       -> "attrFloat"
    [] k = "keyBool"        -> "attrBool"
    [] k = "keyArrayStart"  -> "attrArray"
    [] k = "keyArrayElem"   -> "attrArray"
    [] k = "keyArithmetic"  -> "attrArithmetic"
    [] k = "keyComparison"  -> "attrComparison"
    [] k = "keyCondition"   -> "attrCondition"
    [] k = "keyFunction"    -> "attrFunction"
    [] OTHER                -> "attrNIL"

\* A map assignment that keeps the value already stored under the key.
MapPutIfAbsent(m, k, v) ==
  [x \in DOMAIN m \cup {k} |-> IF x \in DOMAIN m THEN m[x] ELSE v]

\* A Go map: a function with a finite domain of keys.
EmptyMap == <<>>
MapPut(m, k, v) == [x \in DOMAIN m \cup {k} |-> IF x = k THEN v ELSE m[x]]

\* item{}: the zero item peekNextItem returns at the last item.
ZeroItem == [kind |-> "keyNIL", value |-> <<>>,
             position |-> [Line |-> 0, Start |-> 0, Length |-> 0]]

newBlock(name) == [Name |-> name, Attributes |-> EmptyMap, Blocks |-> EmptyMap]


\* newParser, after the lexer has run: the parser over the lexer's items.
newParser(l) ==
  [currentItem      |-> l.items[1],
   currentItemIndex |-> 0,
   Attributes       |-> EmptyMap,
   currentBlocks    |-> <<>>,
   Blocks           |-> EmptyMap,
   atLastItem       |-> FALSE]

\* The Parser struct before newParser has filled it.
NoParser ==
  [currentItem      |-> ZeroItem,
   currentItemIndex |-> 0,
   Attributes       |-> EmptyMap,
   currentBlocks    |-> <<>>,
   Blocks           |-> EmptyMap,
   atLastItem       |-> FALSE]

Parsed(q)      == [panic |-> FALSE, p |-> q]
ParsePanics(q) == [panic |-> TRUE, p |-> q]

\* nextItem: indexing items[currentItemIndex] past the end panics.
nextItem(q, items, nextCount) ==
  LET idx == q.currentItemIndex + nextCount
  IN  IF idx = Len(items)
      THEN Parsed([q EXCEPT !.currentItemIndex = idx, !.atLastItem = TRUE])
      ELSE IF idx > Len(items)
      THEN ParsePanics([q EXCEPT !.currentItemIndex = idx])
      ELSE Parsed([q EXCEPT !.currentItemIndex = idx,
                            !.currentItem = items[idx + 1]])

peekNextItem(q, items) ==
  IF q.currentItemIndex = Len(items) - 1 THEN ZeroItem
  ELSE items[q.currentItemIndex + 2]

\* getCurrentBlock walks the names of currentBlocks down from p.Blocks: whether
\* every block on the way exists.
RECURSIVE pathExists(_, _)
pathExists(blocks, path) ==
  /\ path[1] \in DOMAIN blocks
  /\ (Len(path) = 1 \/ pathExists(blocks[path[1]].Blocks, Tail(path)))

\* The block getCurrentBlock returns: the one at the end of the path.
RECURSIVE getCurrentBlock(_, _)
getCurrentBlock(blocks, path) ==
  IF Len(path) = 1 THEN blocks[path[1]]
  ELSE getCurrentBlock(blocks[path[1]].Blocks, Tail(path))

\* currentBlock.Attributes[newAttr.Name] = newAttr, in the block at `path`
RECURSIVE putAttribute(_, _, _)
putAttribute(blocks, path, attr) ==
  [blocks EXCEPT ![path[1]] =
     IF Len(path) = 1
     THEN [@ EXCEPT !.Attributes = MapPut(@, attr.Name, attr)]
     ELSE [@ EXCEPT !.Blocks = putAttribute(@, Tail(path), attr)]]

\* currentBlock.Blocks[newBlock.Name] = newBlock, in the block at `path`
RECURSIVE putBlock(_, _, _)
putBlock(blocks, path, b) ==
  [blocks EXCEPT ![path[1]] =
     IF Len(path) = 1
     THEN [@ EXCEPT !.Blocks = MapPut(@, b.Name, b)]
     ELSE [@ EXCEPT !.Blocks = putBlock(@, Tail(path), b)]]

\* The values parseAttribute joins for an array: every item after the current
\* one up to the first keyArrayEnd (or the end of the items).
arrayItemsOf(q, items) ==
  LET ends == {i \in (q.currentItemIndex + 1)..(Len(items) - 1) :
                 items[i + 1].kind = "keyArrayEnd"}
      last == IF ends = {} THEN Len(items) - 1 ELSE Min(ends) - 1
  IN  [k \in 1..(last - q.currentItemIndex) |->
         items[q.currentItemIndex + k + 1].value]

\* storeAttribute that ignores the open blocks.
storeAttributeGlobal(q, newAttr) ==
  [q EXCEPT !.Attributes = MapPut(@, newAttr.Name, newAttr)]

\* Add the attribute to the open block or to the global attributes.
storeAttribute(q, newAttr) ==
  IF q.currentBlocks = <<>>
  THEN [q EXCEPT !.Attributes = MapPut(@, newAttr.Name, newAttr)]
  ELSE [q EXCEPT !.Blocks = putAttribute(@, q.currentBlocks, newAttr)]

\* parseAttribute once the value is transformed: a panic of transformItem
\* leaves the Parser as it was.
storeValue(q, items, kind, attrvalue, nextCount) ==
  IF attrvalue.panic THEN ParsePanics(q)
  ELSE IF q.currentBlocks # <<>> /\ ~pathExists(q.Blocks, q.currentBlocks)
  THEN ParsePanics(q)                       \* assignment to a nil map
  ELSE nextItem(storeAttribute(q, [Name  |-> q.currentItem.value,
                                   Value |-> attrvalue.value,
                                   kind  |-> keyKindToAttrKind(kind)]),
                items, nextCount)

\* The text parseAttribute transforms: the next item's value, or for an
\* array the values up to keyArrayEnd joined with ", ".
attributeText(q, items) ==
  IF peekNextItem(q, items).kind = "keyArrayStart"
  THEN JoinWith(arrayItemsOf(q, items), <<",", " ">>)
  ELSE peekNextItem(q, items).value

\* nextCount: 2, and one more for each array item.
attributeItems(q, items) ==
  IF peekNextItem(q, items).kind = "keyArrayStart"
  THEN 2 + Len(arrayItemsOf(q, items))
  ELSE 2

parseAttribute(q, items) ==
  storeValue(q, items, peekNextItem(q, items).kind,
             transformItem(attributeText(q, items),
                           peekNextItem(q, items).kind),
             attributeItems(q, items))

\* storeBlock that keeps a block already stored under the name.
storeBlockKeeping(q, b) ==
  IF q.currentBlocks = <<>>
  THEN IF b.Name \in DOMAIN q.Blocks THEN q
       ELSE [q EXCEPT !.Blocks = MapPut(@, b.Name, b)]
  ELSE IF b.Name \in DOMAIN getCurrentBlock(q.Blocks, q.currentBlocks).Blocks
       THEN q
       ELSE [q EXCEPT !.Blocks = putBlock(@, q.currentBlocks, b)]

\* Add the block to the open block or to the global blocks.
storeBlock(q, b) ==
  IF q.currentBlocks = <<>>
  THEN [q EXCEPT !.Blocks = MapPut(@, b.Name, b)]
  ELSE [q EXCEPT !.Blocks = putBlock(@, q.currentBlocks, b)]

parseBlockStart(q, items) ==
  LET b == newBlock(q.currentItem.value)
  IN  IF q.currentBlocks # <<>> /\ ~pathExists(q.Blocks, q.currentBlocks)
      THEN ParsePanics(q)                       \* assignment to a nil map
      ELSE nextItem([storeBlock(q, b) EXCEPT
                       !.currentBlocks = Append(@, b.Name)],
                    items, 1)

\* parseBlockEnd that ignores a block end met while no block is open.
parseBlockEndIgnoring(q, items) ==
  IF q.currentBlocks = <<>> THEN nextItem(q, items, 1)
  ELSE nextItem([q EXCEPT !.currentBlocks = SubSeq(@, 1, Len(@) - 1)],
                items, 1)

parseBlockEnd(q, items) ==
  IF q.currentBlocks = <<>> THEN ParsePanics(q)   \* currentBlocks[:-1]
  ELSE nextItem([q EXCEPT !.currentBlocks = SubSeq(@, 1, Len(@) - 1)],
                items, 1)

\* parseItem: the parsers in their fixed order.
parseItem(q, items) ==
  LET kind == q.currentItem.kind
  IN  IF      kind = "keyEOF"        THEN nextItem(q, items, 1)
      ELSE IF kind = "keyAttrDef"    THEN parseAttribute(q, items)
      ELSE IF kind = "keyArrayElem"  THEN nextItem(q, items, 1)
      ELSE IF kind = "keyBlockStart" THEN parseBlockStart(q, items)
      ELSE IF kind = "keyBlockEnd"   THEN parseBlockEnd(q, items)
      ELSE IF kind \in {"keyComment", "keyNIL", "keyError"}
                                     THEN nextItem(q, items, 1)
      ELSE nextItem(q, items, 1)


(***************************************************************************)
(* The decoded program: Decode(filename) as a state machine.               *)
(*   file : the statements of the .cafe file, each a text ending in "\n"   *)
(*   pc   : where Decode is                                                *)
(*   lx   : the lexer                                                      *)
(*   p    : the Parser                                                     *)
(***************************************************************************)
VARIABLES file, pc, lx, p

(***************************************************************************)
(* Several calls of Decode, and the objects they allocate:                 *)
(*   calls   : per call, the file, the position in Decode and the pointers *)
(*             lx and p it holds                                           *)
(*   lexers  : the lexer objects, by address                               *)
(*   parsers : the Parser objects, by address                              *)
(***************************************************************************)
VARIABLES calls, lexers, parsers

oneCall  == <<file, pc, lx, p>>
allCalls == <<calls, lexers, parsers>>
vars == <<file, pc, lx, p, calls, lexers, parsers>>

\* readCAFEFile: the runes of the file, in order.
RECURSIVE readCAFEFile(_)
readCAFEFile(f) == IF f = <<>> THEN <<>> ELSE Head(f) \o readCAFEFile(Tail(f))

\* The statements the files are built from: `name = value` lines.
AttrLine(name, valueText) == name \o <<" ", "=", " ">> \o valueText \o <<"\n">>
Quoted(payload)      == <<"\"">> \o payload \o <<"\"">>
Commented(valueText) == valueText \o <<" ", "/", "/", " ", "c">>

Name == [x |-> <<"x">>, s |-> <<"s">>, a |-> <<"a">>, b |-> <<"b">>,
         app |-> <<"a", "p", "p">>]

\* Value texts.  arrayMixed has an unquoted last element; arrayLines is
\*   [              multiString is   "a" \
\*       1,                                     "b"
\*       2
\*   ]
Text ==
  [string        |-> <<"\"", "h", "i", "\"">>,
   int           |-> <<"1", "2">>,
   float         |-> <<"1", ".", "5">>,
   bool          |-> <<"t", "r", "u", "e">>,
   array         |-> <<"[", "1", ",", " ", "2", "]">>,
   arrayQuoted   |-> <<"[", "\"", "1", "\"", ",", " ", "\"", "2", "\"", "]">>,
   arrayMixed    |-> <<"[", "1", ",", " ", "\"", "2", "\"", ",", " ", "1", ".", "5", ",",
                     " ", "t", "r", "u", "e", "]">>,
   arrayLines    |-> <<"[", "\n", " ", " ", " ", " ", "1", ",", "\n",
                     " ", " ", " ", " ", "2", "\n", "]">>,
   interpolation |-> <<"\"", "$", "{", "y", "}", "\"">>,
   reference     |-> <<"n", "a", "m", "e">>,
   arithmetic    |-> <<"1", " ", "+", " ", "2">>,
   comparison    |-> <<"1", " ", ">", " ", "2">>,
   condition     |-> <<"i", "f", " ", "y", " ", ":",
                     " ", "1", " ", "?", " ", "2">>,
   function      |-> <<"u", "p", "p", "e", "r", "(", "\"", "a", "\"", ")">>,
   multiString   |-> <<"\"", "a", "\"", " ", "\\", "\n",
                     " ", " ", " ", " ", " ", " ", " ", " ", " ", " ", " ",
                     "\"", "b", "\"">>]

\* string, integer, float and boolean literals
LiteralTexts == {Text.string, Text.int, Text.float, Text.bool}
\* payloads that look like an integer, a float, a boolean, an array
TrickPayloads == {Text.int, Text.float, Text.bool, Text.array}
ArrayTexts == {Text.array, Text.arrayQuoted, Text.arrayMixed, Text.arrayLines}
\* the computed values, and the string continued on the next line
ComputedTexts == {Text.arithmetic, Text.comparison, Text.condition,
                  Text.function, Text.multiString}

Statements ==
  {AttrLine(Name.x, v) : v \in LiteralTexts}
  \cup {AttrLine(Name.x, Commented(v)) : v \in LiteralTexts}
  \cup {AttrLine(Name.s, Quoted(t)) : t \in TrickPayloads}
  \cup {AttrLine(Name.a, t) : t \in ArrayTexts}
  \cup {AttrLine(Name.s, Text.interpolation), AttrLine(Name.app, Text.reference)}
  \cup {AttrLine(Name.x, c) : c \in ComputedTexts}

\* Files of at most MaxStatements statements.
MaxStatements == 2

RECURSIVE FilesOf(_, _)
FilesOf(statements, n) ==
  IF n = 0 THEN {<<>>}
  ELSE LET shorter == FilesOf(statements, n - 1)
       IN  shorter \cup {Append(f, st) : f \in shorter, st \in statements}

Files == FilesOf(Statements, MaxStatements) \ {<<>>}

InitOn(files) ==
  /\ file \in files
  /\ pc = "lexInput"
  /\ lx = newLexer(readCAFEFile(file))
  /\ p = NoParser
  /\ calls = <<>> /\ lexers = <<>> /\ parsers = <<>>

Init == InitOn(Files)

\* One turn of lexInput's loop: lexByte, or its panic.
LexByte ==
  /\ pc = "lexInput"
  /\ ~lx.atEOF
  /\ LET r == lexByte(lx)
     IN  /\ lx' = r.l
         /\ pc' = IF r.panic THEN "lexerPanic" ELSE "lexInput"
  /\ UNCHANGED <<file, p>>
  /\ UNCHANGED allCalls

\* newParser once lexInput has returned: items[0] panics without items.
NewParser ==
  /\ pc = "lexInput"
  /\ lx.atEOF
  /\ IF lx.items = <<>>
     THEN pc' = "parserPanic" /\ p' = p
     ELSE pc' = "parseItems" /\ p' = newParser(lx)
  /\ UNCHANGED <<file, lx>>
  /\ UNCHANGED allCalls

\* One turn of parseItems' loop: parseItem, or its panic.
ParseItem ==
  /\ pc = "parseItems"
  /\ ~p.atLastItem
  /\ LET r == parseItem(p, lx.items)
     IN  /\ p' = r.p
         /\ pc' = IF r.panic THEN "parserPanic" ELSE "parseItems"
  /\ UNCHANGED <<file, lx>>
  /\ UNCHANGED allCalls

\* parseItems returns at the last item and Decode returns the Parser.
Return ==
  /\ pc = "parseItems"
  /\ p.atLastItem
  /\ pc' = "returned"
  /\ UNCHANGED <<file, lx, p>>
  /\ UNCHANGED allCalls

Next == LexByte \/ NewParser \/ ParseItem \/ Return

Spec == Init /\ [][Next]_vars


(***************************************************************************)
(* Files of blocks: two block names, the closing brace, and an attribute x *)
(* written with two different values, one of them indented.                *)
(***************************************************************************)
BlockOpen(name) == name \o <<" ", "{", "\n">>
BlockClose      == <<"}", "\n">>
Indented(text)  == <<" ", " ", " ", " ">> \o text

BlockStatements ==
  {BlockOpen(Name.a), BlockOpen(Name.b), BlockClose,
   AttrLine(Name.x, Text.int), Indented(AttrLine(Name.x, Text.bool))}

MaxBlockStatements == 5

BlockFiles == FilesOf(BlockStatements, MaxBlockStatements) \ {<<>>}

InitBlocks == InitOn(BlockFiles)

SpecBlocks == InitBlocks /\ [][Next]_vars


(***************************************************************************)
(* Files of expressions: one attribute x whose value is an arithmetic      *)
(* expression or a comparison over small integer literals, well formed or  *)
(* not, and the file of an attribute followed by a line no rule claims.    *)
(***************************************************************************)
\* strconv.Itoa for a natural number: its decimal digits.
RECURSIVE Itoa(_)
Itoa(n) ==
  LET digit == <<"0", "1", "2", "3", "4", "5", "6", "7", "8", "9">>[(n % 10) + 1]
  IN  IF n < 10 THEN <<digit>> ELSE Append(Itoa(n \div 10), digit)

MaxOperand == 4

\* the literals 0..MaxOperand, and 1000
SmallOperands == 0..MaxOperand
Operands == SmallOperands \cup {Pow10(3)}

\* written with or without spaces around the operator
Spacings == {<<>>, <<" ">>}

Binary(a, op, b, sp) == Itoa(a) \o sp \o op \o sp \o Itoa(b)

ArithmeticOperators == {<<"+">>, <<"-">>, <<"*">>, <<"/">>, <<"%">>}
Comparators ==
  {<<"=", "=">>, <<"!", "=">>, <<">">>, <<">", "=">>, <<"<">>, <<"<", "=">>}

\* a + b * c and a * b + c
SumOfProduct(a, b, c) == Binary(a, <<"+">>, b, <<" ">>) \o <<" ", "*", " ">> \o Itoa(c)
ProductPlus(a, b, c)  == Binary(a, <<"*">>, b, <<" ">>) \o <<" ", "+", " ">> \o Itoa(c)

\* an operator without an operand before it, after it, or between it and
\* the operator before
LeadingOperator(a)      == <<"+", " ">> \o Itoa(a)
TrailingOperator(a)     == Itoa(a) \o <<" ", "+">>
ConsecutiveOperators(a, b) == Itoa(a) \o <<" ", "+", " ", "*", " ">> \o Itoa(b)

\* a line of one character no rule claims
UnclaimedLine == <<"@", "\n">>

ExpressionTexts ==
  {Binary(a, op, b, sp) :
     a \in Operands, b \in Operands, op \in ArithmeticOperators, sp \in Spacings}
  \cup {Binary(a, c, b, <<" ">>) :
          a \in SmallOperands, b \in SmallOperands, c \in Comparators}
  \cup {SumOfProduct(a, b, c) :
          a \in SmallOperands, b \in SmallOperands, c \in SmallOperands}
  \cup {ProductPlus(a, b, c) :
          a \in SmallOperands, b \in SmallOperands, c \in SmallOperands}
  \cup {LeadingOperator(a) : a \in SmallOperands}
  \cup {TrailingOperator(a) : a \in SmallOperands}
  \cup {ConsecutiveOperators(a, b) : a \in SmallOperands, b \in SmallOperands}

ExpressionFiles ==
  {<<AttrLine(Name.x, t)>> : t \in ExpressionTexts}
  \cup {<<AttrLine(Name.x, Text.int), UnclaimedLine>>}

InitExpressions == InitOn(ExpressionFiles)

SpecExpressions == InitExpressions /\ [][Next]_vars

(***************************************************************************)
(* Files of booleans, calls and conditions: one attribute x whose value is *)
(* a boolean spelling, a comparison with a boolean operand, a call of a    *)
(* built-in function or of an unregistered name, or a condition.           *)
(***************************************************************************)
BoolWord(b) == IF b THEN <<"t", "r", "u", "e">> ELSE <<"f", "a", "l", "s", "e">>

\* spellings of the booleans, and two words that spell none
BooleanSpellings ==
  { BoolWord(TRUE), BoolWord(FALSE),
    <<"T", "r", "u", "e">>, <<"F", "a", "l", "s", "e">>,
    <<"T", "R", "U", "E">>, <<"F", "A", "L", "S", "E">>,
    <<"t">>, <<"f">>, <<"T">>, <<"F">>,
    <<"t", "R", "U", "E">>, <<"y", "e", "s">> }

\* a comparison written with spaces, over operand texts
Compared(a, c, b) == a \o <<" ">> \o c \o <<" ">> \o b

BoolOperands == {BoolWord(TRUE), BoolWord(FALSE)}
NumberOperands == {Itoa(n) : n \in SmallOperands}

\* comparisons with a boolean on at least one side
BooleanComparisons ==
  {Compared(a, c, b) : a \in BoolOperands, b \in BoolOperands \cup NumberOperands,
                       c \in Comparators}
  \cup {Compared(a, c, b) : a \in NumberOperands, b \in BoolOperands,
                            c \in Comparators}

\* name(params), and two parameters as they are written: "a, b"
Call(name, params) == name \o <<"(">> \o params \o <<")">>
Two(a, b) == a \o <<",", " ">> \o b

FuncName ==
  [append    |-> <<"a", "p", "p", "e", "n", "d">>,
   contains  |-> <<"c", "o", "n", "t", "a", "i", "n", "s">>,
   power     |-> <<"p", "o", "w", "e", "r">>,
   floor     |-> <<"f", "l", "o", "o", "r">>,
   remainder |-> <<"r", "e", "m", "a", "i", "n", "d", "e", "r">>,
   and       |-> <<"a", "n", "d">>,
   or        |-> <<"o", "r">>,
   nand      |-> <<"n", "a", "n", "d">>,
   nor       |-> <<"n", "o", "r">>,
   xor       |-> <<"x", "o", "r">>,
   xnor      |-> <<"x", "n", "o", "r">>]

GateNames == {FuncName.and, FuncName.or, FuncName.nand, FuncName.nor,
              FuncName.xor, FuncName.xnor}

GateCalls ==
  {Call(g, Two(BoolWord(a), BoolWord(b))) : g \in GateNames,
                                            a \in BOOLEAN, b \in BOOLEAN}

\* Numeric literals with the number each denotes: integers and floats.
IntegerLiterals ==
  { [text |-> <<"2">>, q |-> <<2, 1>>, int |-> TRUE],
    [text |-> <<"7">>, q |-> <<7, 1>>, int |-> TRUE],
    [text |-> <<"1", "7">>, q |-> <<17, 1>>, int |-> TRUE] }
FloatLiterals ==
  { [text |-> <<"2", ".", "0">>, q |-> <<2, 1>>, int |-> FALSE],
    [text |-> <<"2", ".", "5">>, q |-> <<5, 2>>, int |-> FALSE],
    [text |-> <<"7", ".", "5">>, q |-> <<15, 2>>, int |-> FALSE] }
NumberLiterals == IntegerLiterals \cup FloatLiterals

\* the exponents of power are whole numbers, written as integer or float
Exponents == {n \in NumberLiterals : n.q = <<2, 1>>}

NumericalCases ==
  {[name |-> FuncName.power, a |-> a, b |-> b] :
     a \in NumberLiterals, b \in Exponents}
  \cup {[name |-> f, a |-> a, b |-> b] :
          f \in {FuncName.floor, FuncName.remainder},
          a \in NumberLiterals, b \in NumberLiterals}

CaseText(c) == Call(c.name, Two(c.a.text, c.b.text))

\* texts that are no number: a quoted string and a name
NonNumbers == {Quoted(<<"a">>), <<"a", "b">>}
NumericalNames == {FuncName.power, FuncName.floor, FuncName.remainder}

NonNumericCalls ==
  {Call(f, Two(t, <<"2">>)) : f \in NumericalNames, t \in NonNumbers}
  \cup {Call(f, Two(<<"7">>, t)) : f \in NumericalNames, t \in NonNumbers}

\* append and contains over a first parameter with a comma inside its quotes
QuotedComma == Quoted(<<"a", ",", " ", "b">>)
StringCalls ==
  {Call(f, Two(a, Quoted(<<"c">>))) :
     f \in {FuncName.append, FuncName.contains},
     a \in {QuotedComma, Quoted(<<"a", "b">>)}}

\* names outside the registered set
UnregisteredNames ==
  { <<"f", "o", "o">>, <<"m", "a", "x">>, <<"s", "q", "r", "t">>,
    <<"f", "o", "r", "m", "a", "t">>, <<"i", "f">>,
    <<"n", "o", "t", "i", "f", "y">>, <<"U", "p", "p", "e", "r">> }
UnregisteredCalls ==
  {Call(n, a) : n \in UnregisteredNames,
                a \in {<<"1">>, Two(<<"1">>, <<"2">>), Quoted(<<"a">>)}}

ConditionTexts ==
  { Text.condition,
    <<"i", "f", " ", "a">>, <<"f", "o", "r", " ", "a">>,
    <<"i", "f", " ", "a", " ", ">", " ", "1">>,
    <<"i", "f", " ", "t", "r", "u", "e">>,
    <<"f", "o", "r", " ", "i", " ", "i", "n", " ", "a", "r", "r">>,
    <<"i", "f", " ", "a", ",", " ", "b">> }

BuiltinTexts ==
  BooleanSpellings \cup BooleanComparisons \cup GateCalls
  \cup {CaseText(c) : c \in NumericalCases} \cup NonNumericCalls
  \cup StringCalls \cup UnregisteredCalls \cup ConditionTexts

BuiltinFiles == {<<AttrLine(Name.x, t)>> : t \in BuiltinTexts}

InitBuiltins == InitOn(BuiltinFiles)

SpecBuiltins == InitBuiltins /\ [][Next]_vars

(***************************************************************************)
(* Files of literal values: a negative number, a string continued over     *)
(* several lines, and a float as an attribute, as an array element and as  *)
(* a function parameter.                                                   *)
(***************************************************************************)
Negative(t) == <<"-">> \o t

\* floats with the number of digits after their decimal point
FloatTexts ==
  { [text |-> <<"1", ".", "5">>, decimals |-> 1],
    [text |-> <<"3", ".", "1", "4">>, decimals |-> 2],
    [text |-> <<"1", "0", ".", "1", "0">>, decimals |-> 2],
    [text |-> <<"1", "2", ".", "2", "5">>, decimals |-> 2],
    [text |-> <<"1", "2", "3", "4", ".", "1">>, decimals |-> 1] }

NegativeIntegers == {Negative(Itoa(n)) : n \in Operands \ {0}}
NegativeFloats   == {Negative(f.text) : f \in FloatTexts}

\* the example of SPEC.md: number = -10
NumberExample == AttrLine(<<"n", "u", "m", "b", "e", "r">>, Negative(Itoa(10)))

\* Strings continued over lines: each segment but the last is followed by
\* ` \` and a line break, each continuation line starts with indent spaces.
MaxIndent == 4

RECURSIVE Spaces(_)
Spaces(n) == IF n = 0 THEN <<>> ELSE <<" ">> \o Spaces(n - 1)

RECURSIVE MultiLine(_, _)
MultiLine(segments, indent) ==
  IF Len(segments) = 1 THEN Quoted(segments[1])
  ELSE Quoted(segments[1]) \o <<" ", "\\", "\n">> \o Spaces(indent)
         \o MultiLine(Tail(segments), indent)

SegmentLists ==
  { <<<<"a">>, <<"b">>>>, <<<<"a", "b">>, <<"c", "d">>>>,
    <<<<"a">>, <<"b">>, <<"c">>>> }

MultiLineTexts ==
  {MultiLine(segs, n) : segs \in SegmentLists, n \in 0..MaxIndent}

\* a float twice in an array, and as the first parameter of power(f, 1.0)
ArrayOf(t) == <<"[">> \o Two(t, t) \o <<"]">>
PowerOne(t) == Call(FuncName.power, Two(t, <<"1", ".", "0">>))

ValueFiles ==
  {<<AttrLine(Name.x, t)>> : t \in NegativeIntegers \cup NegativeFloats}
  \cup {<<NumberExample>>}
  \cup {<<AttrLine(Name.s, t)>> : t \in MultiLineTexts}
  \cup {<<AttrLine(Name.x, f.text)>> : f \in FloatTexts}
  \cup {<<AttrLine(Name.a, ArrayOf(f.text))>> : f \in FloatTexts}
  \cup {<<AttrLine(Name.x, PowerOne(f.text))>> : f \in FloatTexts}

InitValues == InitOn(ValueFiles)

SpecValues == InitValues /\ [][Next]_vars

(***************************************************************************)
(* Files at the edges of the scanner: a statement, complete or cut short,  *)
(* after nothing, a space or a blank line, and with or without the final   *)
(* line break.                                                             *)
(***************************************************************************)
EdgePrefixes == {<<>>, <<" ">>, <<"\n">>}
EdgeSuffixes == {<<>>, <<"\n">>}

\* `name = value`, without the line break
Assign(name, valueText) == name \o <<" ", "=", " ">> \o valueText

EdgeBodies ==
  {Assign(Name.x, t) : t \in {<<"1">>, <<"1", "2">>, <<"1", "2", "3">>,
                             <<"1", "2", "3", "4", "5">>}}
  \cup {Assign(Name.a, <<"[", "1", ",", " ", "2", "]">>),
        Assign(Name.a, <<"[", "1", ",", " ", "2">>),
        Assign(Name.a, <<"[", "\n", "1", ",", "\n", "2">>),
        <<"b", " ", "{">>, <<"}">>, <<"x">>, <<"?">>,
        AttrLine(Name.x, <<"1", "2">>) \o <<"}">>,
        AttrLine(Name.x, <<"1", "2">>) \o Assign(Name.s, Quoted(<<"a">>))}

EdgeFiles ==
  {<<pre \o body \o post>> :
     pre \in EdgePrefixes, body \in EdgeBodies, post \in EdgeSuffixes}

InitEdges == InitOn(EdgeFiles)

SpecEdges == InitEdges /\ [][Next]_vars




(***************************************************************************)
(* Several calls of Decode, their steps interleaved.  newLexer and         *)
(* newParser return pointers to new objects; a call reaches its lexer and  *)
(* its Parser through the pointers it holds, the Parser its lexer through  *)
(* its field lx.  The caller may change the tree it was returned.          *)
(***************************************************************************)
MaxCalls == 3

Slots == 1..MaxCalls

CallFiles == {<<AttrLine(Name.x, Text.bool)>>, <<AttrLine(Name.x, Text.int)>>}

\* What Decode returns to see: the attributes and blocks of the Parser.
TreeOf(q) == [Attributes |-> q.Attributes, Blocks |-> q.Blocks]

NoTree == [Attributes |-> EmptyMap, Blocks |-> EmptyMap]

\* A call not started: nil pointers.  steps counts the steps it has taken,
\* tree records the tree as it was when Decode returned.
IdleCall ==
  [file |-> <<>>, pc |-> "idle", lx |-> 0, p |-> 0,
   steps |-> 0, tree |-> NoTree, mutated |-> FALSE]

\* One lexer, one Parser for the whole package instead of one per call.
newLexerAtShared(objects)  == 1
newParserAtShared(objects) == 1

\* &lexer{...} and &Parser{...}: the address of a new object.
newLexerAt(objects)  == Cardinality(DOMAIN objects) + 1
newParserAt(objects) == Cardinality(DOMAIN objects) + 1

InitCalls ==
  /\ file = <<>> /\ pc = "idle" /\ lx = <<>> /\ p = NoParser
  /\ calls = [i \in Slots |-> IdleCall]
  /\ lexers = <<>>
  /\ parsers = <<>>

\* Decode is called: readCAFEFile, and newParser begins with newLexer.  The
\* calls are numbered in the order they are made.
CallDecode(i) ==
  /\ calls[i].pc = "idle"
  /\ \A j \in 1..(i - 1) : calls[j].pc # "idle"
  /\ \E f \in CallFiles :
       /\ lexers' = MapPut(lexers, newLexerAt(lexers), newLexer(readCAFEFile(f)))
       /\ calls' = [calls EXCEPT ![i] =
                      [@ EXCEPT !.file = f, !.pc = "lexInput",
                                !.lx = newLexerAt(lexers), !.steps = 1]]
  /\ UNCHANGED <<parsers, oneCall>>

\* One turn of lexInput's loop on the call's lexer.
CallLexByte(i) ==
  /\ calls[i].pc = "lexInput"
  /\ ~lexers[calls[i].lx].atEOF
  /\ LET r == lexByte(lexers[calls[i].lx])
     IN  /\ lexers' = [lexers EXCEPT ![calls[i].lx] = r.l]
         /\ calls' = [calls EXCEPT ![i] =
                        [@ EXCEPT !.pc = IF r.panic THEN "lexerPanic" ELSE "lexInput",
                                  !.steps = @ + 1]]
  /\ UNCHANGED <<parsers, oneCall>>

\* newParser once lexInput has returned: the new Parser points to the lexer.
CallNewParser(i) ==
  /\ calls[i].pc = "lexInput"
  /\ lexers[calls[i].lx].atEOF
  /\ IF lexers[calls[i].lx].items = <<>>
     THEN /\ calls' = [calls EXCEPT ![i] =
                         [@ EXCEPT !.pc = "parserPanic", !.steps = @ + 1]]
          /\ parsers' = parsers
     ELSE /\ parsers' = MapPut(parsers, newParserAt(parsers),
                               ("lx" :> calls[i].lx) @@ newParser(lexers[calls[i].lx]))
          /\ calls' = [calls EXCEPT ![i] =
                         [@ EXCEPT !.pc = "parseItems",
                                   !.p = newParserAt(parsers), !.steps = @ + 1]]
  /\ UNCHANGED <<lexers, oneCall>>

\* One turn of parseItems' loop on the call's Parser, over p.lx.items.
CallParseItem(i) ==
  /\ calls[i].pc = "parseItems"
  /\ ~parsers[calls[i].p].atLastItem
  /\ LET r == parseItem(parsers[calls[i].p],
                        lexers[parsers[calls[i].p].lx].items)
     IN  /\ parsers' = [parsers EXCEPT ![calls[i].p] = r.p]
         /\ calls' = [calls EXCEPT ![i] =
                        [@ EXCEPT !.pc = IF r.panic THEN "parserPanic" ELSE "parseItems",
                                  !.steps = @ + 1]]
  /\ UNCHANGED <<lexers, oneCall>>

\* Decode returns the pointer p.
CallReturn(i) ==
  /\ calls[i].pc = "parseItems"
  /\ parsers[calls[i].p].atLastItem
  /\ calls' = [calls EXCEPT ![i] =
                 [@ EXCEPT !.pc = "returned", !.steps = @ + 1,
                           !.tree = TreeOf(parsers[calls[i].p])]]
  /\ UNCHANGED <<lexers, parsers, oneCall>>

\* The caller writes an attribute into the tree it was returned.
Mutate(i) ==
  /\ calls[i].pc = "returned"
  /\ ~calls[i].mutated
  /\ parsers' = [parsers EXCEPT ![calls[i].p].Attributes =
                   MapPut(@, Name.app, [Name  |-> Name.app,
                                        Value |-> StringV(<<>>),
                                        kind  |-> "attrString"])]
  /\ calls' = [calls EXCEPT ![i].mutated = TRUE]
  /\ UNCHANGED <<lexers, oneCall>>

NextCalls ==
  \E i \in Slots :
    \/ CallDecode(i)
    \/ CallLexByte(i)
    \/ CallNewParser(i)
    \/ CallParseItem(i)
    \/ CallReturn(i)
    \/ Mutate(i)

SpecCalls == InitCalls /\ [][NextCalls]_vars


(***************************************************************************)
(* Properties of the decoded tree.                                         *)
(***************************************************************************)
\* lexInput has returned: the items are the tokens of the whole file.
Lexed == pc \in {"parseItems", "returned", "parserPanic"}

\* The value a literal text denotes.
Denoted(text) ==
  CASE text = Text.string -> StringV(<<"h", "i">>)
    [] text = Text.int    -> IntV(12)
    [] text = Text.float  -> FloatV(<<3, 2>>)
    [] text = Text.bool   -> BoolV(TRUE)

\* The token kind and the attribute kind of a literal text.
LiteralKey(text) ==
  CASE text = Text.string -> "keyString"
    [] text = Text.int    -> "keyInt"
    [] text = Text.float  -> "keyFloat"
    [] text = Text.bool   -> "keyBool"

LiteralAttr(text) ==
  CASE text = Text.string -> "attrString"
    [] text = Text.int    -> "attrInt"
    [] text = Text.float  -> "attrFloat"
    [] text = Text.bool   -> "attrBool"

\* The elements written in an array text, in source order.
ElementsOf(text) ==
  CASE text = Text.array       -> <<IntV(1), IntV(2)>>
    [] text = Text.arrayQuoted -> <<StringV(<<"1">>), StringV(<<"2">>)>>
    [] text = Text.arrayMixed  -> <<IntV(1), StringV(<<"2">>),
                                    FloatV(<<3, 2>>), BoolV(TRUE)>>
    [] text = Text.arrayLines  -> <<IntV(1), IntV(2)>>

\* C1: once Decode has returned, the array attribute written by the last
\* statement of the file holds exactly the elements of the literal, in source
\* order, each with its type and value: none is dropped, an unquoted last
\* element included.
C1_ArrayKeepsEveryElement ==
  \A t \in ArrayTexts :
    (pc = "returned" /\ file[Len(file)] = AttrLine(Name.a, t))
      => /\ Name.a \in DOMAIN p.Attributes
         /\ p.Attributes[Name.a].Value = ArrayV(ElementsOf(t))

\* C2: for the file of the one statement `x = v // c`, v a string, integer,
\* float or boolean literal: Decode does not abort in the parser, the value
\* token has the kind and text of v and is followed by a comment token, and
\* the attribute x has the kind and value of `x = v`.
C2_InlineCommentKeepsValue ==
  \A v \in LiteralTexts :
    file = <<AttrLine(Name.x, Commented(v))>>
      => /\ pc # "parserPanic"
         /\ Lexed => /\ Len(lx.items) = 3
                     /\ lx.items[2].kind = LiteralKey(v)
                     /\ lx.items[2].value = v
                     /\ lx.items[3].kind = "keyComment"
         /\ pc = "returned"
              => /\ Name.x \in DOMAIN p.Attributes
                 /\ p.Attributes[Name.x] = [Name  |-> Name.x,
                                            Value |-> Denoted(v),
                                            kind  |-> LiteralAttr(v)]


\* C3: quoting wins.  When the first statement of the file is `s = "t"` with
\* t looking like an integer, a float, a boolean or an array, its value is
\* lexed as one string token holding the quoted text; when it is the last
\* statement and Decode has returned, s is a String attribute holding t
\* unchanged.
C3_QuotingWins ==
  \A t \in TrickPayloads :
    /\ (Lexed /\ file[1] = AttrLine(Name.s, Quoted(t)))
         => /\ Len(lx.items) >= 2
            /\ lx.items[1].kind = "keyAttrDef"
            /\ lx.items[2].kind = "keyString"
            /\ lx.items[2].value = Quoted(t)
    /\ (pc = "returned" /\ file[Len(file)] = AttrLine(Name.s, Quoted(t)))
         => /\ Name.s \in DOMAIN p.Attributes
            /\ p.Attributes[Name.s] = [Name  |-> Name.s,
                                       Value |-> StringV(t),
                                       kind  |-> "attrString"]

\* Decode has returned a String attribute for `s = "[1, 2]"`, written after
\* an integer attribute.
C3_Witness ==
  /\ pc = "returned"
  /\ file = <<AttrLine(Name.x, Text.int), AttrLine(Name.s, Quoted(Text.array))>>
  /\ p.Attributes[Name.s].Value = StringV(Text.array)
  /\ p.Attributes[Name.s].kind = "attrString"

\* C4: the files here hold braces only inside quotes, so no block-start or
\* block-end token is ever produced; the file of the one statement
\* `s = "${y}"` is lexed as a definition and one string token, and decodes to
\* the String attribute holding ${y} unevaluated.
C4_BracesInsideStrings ==
  /\ \A k \in 1..Len(lx.items) :
       lx.items[k].kind \notin {"keyBlockStart", "keyBlockEnd"}
  /\ file = <<AttrLine(Name.s, Text.interpolation)>>
       => /\ pc # "parserPanic"
          /\ Lexed => /\ Len(lx.items) = 2
                      /\ lx.items[2].kind = "keyString"
                      /\ lx.items[2].value = Text.interpolation
          /\ pc = "returned"
               => /\ Name.s \in DOMAIN p.Attributes
                  /\ p.Attributes[Name.s].Value
                       = StringV(<<"$", "{", "y", "}">>)

\* C5: the file of the one statement `app = name`, an attribute reference,
\* is decoded: the parser does not abort, and the tree Decode returns holds
\* an attribute app.
C5_ReferenceDecodes ==
  file = <<AttrLine(Name.app, Text.reference)>>
    => /\ pc # "parserPanic"
       /\ pc = "returned" => Name.app \in DOMAIN p.Attributes


(***************************************************************************)
(* Scopes of the tree: the root is the empty path, a block is the path of  *)
(* block names that leads to it.                                           *)
(***************************************************************************)
RECURSIVE Scopes(_)
Scopes(blocks) ==
  {<<>>} \cup UNION {{<<n>> \o sc : sc \in Scopes(blocks[n].Blocks)} :
                      n \in DOMAIN blocks}

AttributesAt(q, scope) ==
  IF scope = <<>> THEN q.Attributes
  ELSE getCurrentBlock(q.Blocks, scope).Attributes

BlocksAt(q, scope) ==
  IF scope = <<>> THEN q.Blocks
  ELSE getCurrentBlock(q.Blocks, scope).Blocks

\* parseItem consumes an attribute definition / a block start and goes on.
AttributeStep ==
  /\ pc = "parseItems" /\ ~p.atLastItem /\ p.currentItem.kind = "keyAttrDef"
  /\ pc' = "parseItems"

BlockStartStep ==
  /\ pc = "parseItems" /\ ~p.atLastItem /\ p.currentItem.kind = "keyBlockStart"
  /\ pc' = "parseItems"

\* C6: consuming an attribute definition enters the attribute, under its
\* name, in the innermost open block (the root when none is open); the
\* attributes of every other scope, the set of scopes and the open blocks
\* stay as they were.
C6_AttributeInInnermostBlock ==
  [][AttributeStep =>
       /\ p.currentBlocks \in Scopes(p.Blocks)
       /\ Scopes(p'.Blocks) = Scopes(p.Blocks)
       /\ p'.currentBlocks = p.currentBlocks
       /\ p.currentItem.value \in DOMAIN AttributesAt(p', p.currentBlocks)
       /\ \A sc \in Scopes(p.Blocks) \ {p.currentBlocks} :
            AttributesAt(p', sc) = AttributesAt(p, sc)]_vars

\* Decode has returned a tree where x is true in block a and 12 in the block
\* b nested in a, and the root has no x.
C6_Witness ==
  /\ pc = "returned"
  /\ file = <<BlockOpen(Name.a), Indented(AttrLine(Name.x, Text.bool)),
              BlockOpen(Name.b), AttrLine(Name.x, Text.int), BlockClose>>
  /\ p.Attributes = EmptyMap
  /\ p.Blocks[Name.a].Attributes[Name.x].Value = BoolV(TRUE)
  /\ p.Blocks[Name.a].Blocks[Name.b].Attributes[Name.x].Value = IntV(12)

\* C7: every scope holds its attributes under their own names, one per name;
\* and consuming a definition whose value token is the literal 12, 1.5 or
\* true leaves in the open scope exactly the names it had and the defined
\* name, that name with the kind and value of this definition (whatever it
\* held before) and the other names unchanged.
C7_LastDefinitionWins ==
  [][/\ \A sc \in Scopes(p.Blocks) : \A n \in DOMAIN AttributesAt(p, sc) :
          AttributesAt(p, sc)[n].Name = n
     /\ \A written \in {Text.int, Text.float, Text.bool} :
          (AttributeStep /\ lx.items[p.currentItemIndex + 2].value = written)
            => /\ DOMAIN AttributesAt(p', p.currentBlocks)
                    = DOMAIN AttributesAt(p, p.currentBlocks)
                        \cup {p.currentItem.value}
               /\ AttributesAt(p', p.currentBlocks)[p.currentItem.value]
                    = [Name  |-> p.currentItem.value,
                       Value |-> Denoted(written),
                       kind  |-> LiteralAttr(written)]
               /\ \A n \in DOMAIN AttributesAt(p, p.currentBlocks)
                             \ {p.currentItem.value} :
                    AttributesAt(p', p.currentBlocks)[n]
                      = AttributesAt(p, p.currentBlocks)[n]
    ]_vars

\* Decode has returned with x defined twice in block a: it is the boolean of
\* the second definition.
C7_Witness ==
  /\ pc = "returned"
  /\ file = <<BlockOpen(Name.a), AttrLine(Name.x, Text.int),
              Indented(AttrLine(Name.x, Text.bool))>>
  /\ DOMAIN p.Blocks[Name.a].Attributes = {Name.x}
  /\ p.Blocks[Name.a].Attributes[Name.x].Value = BoolV(TRUE)
  /\ p.Blocks[Name.a].Attributes[Name.x].kind = "attrBool"

\* C8: consuming a block start leaves in the open scope exactly the block
\* names it had and this one, under which is a block without attributes and
\* without child blocks, whatever was stored under the name before; that
\* block becomes the innermost open block.
C8_ReopenedBlockIsReplaced ==
  [][BlockStartStep =>
       LET name == p.currentItem.value
       IN  /\ DOMAIN BlocksAt(p', p.currentBlocks)
                = DOMAIN BlocksAt(p, p.currentBlocks) \cup {name}
           /\ BlocksAt(p', p.currentBlocks)[name]
                = [Name |-> name, Attributes |-> EmptyMap, Blocks |-> EmptyMap]
           /\ p'.currentBlocks = Append(p.currentBlocks, name)]_vars

\* Decode has returned with block a opened twice, x written in the first
\* occurrence only: block a has no attribute.
C8_Witness ==
  /\ pc = "returned"
  /\ file = <<BlockOpen(Name.a), AttrLine(Name.x, Text.int), BlockClose,
              BlockOpen(Name.a), BlockClose>>
  /\ DOMAIN p.Blocks = {Name.a}
  /\ p.Blocks[Name.a].Attributes = EmptyMap

\* The attribute kind of each token kind that may follow a definition.
KindTable ==
  [keyString      |-> "attrString",
   keyMultiString |-> "attrString",
   keyInt         |-> "attrInt",
   keyFloat       |-> "attrFloat",
   keyBool        |-> "attrBool",
   keyArrayStart  |-> "attrArray",
   keyArithmetic  |-> "attrArithmetic",
   keyComparison  |-> "attrComparison",
   keyCondition   |-> "attrCondition",
   keyFunction    |-> "attrFunction"]

\* The kind of the token after the current one (none: keyNIL).
FollowingKind ==
  IF p.currentItemIndex + 2 > Len(lx.items) THEN "keyNIL"
  ELSE lx.items[p.currentItemIndex + 2].kind

\* C9: when parseItem is at a definition, either the following token has a
\* kind of the table and the attribute, if one is stored, has the kind the
\* table gives, or the decode aborts; and no stored attribute has the NIL
\* kind.
C9_KindOfFollowingToken ==
  [][/\ (pc = "parseItems" /\ ~p.atLastItem
           /\ p.currentItem.kind = "keyAttrDef")
          => IF FollowingKind \in DOMAIN KindTable
             THEN pc' = "parseItems"
                    => AttributesAt(p', p.currentBlocks)[p.currentItem.value].kind
                         = KindTable[FollowingKind]
             ELSE pc' = "parserPanic"
     /\ \A sc \in Scopes(p'.Blocks) : \A n \in DOMAIN AttributesAt(p', sc) :
          AttributesAt(p', sc)[n].kind # "attrNIL"
    ]_vars

\* Decode has returned a Condition attribute.
C9_Witness ==
  /\ pc = "returned"
  /\ file = <<AttrLine(Name.x, Text.condition)>>
  /\ p.Attributes[Name.x].kind = "attrCondition"

\* C10: Decode returns a tree only when every opened block was closed.
C10_UnterminatedBlockFails ==
  pc = "returned" => p.currentBlocks = <<>>


\* C11: Decode never aborts its caller: whatever the file, neither the
\* scanner nor the value transformation or the tree building panics.
C11_FatalErrorIsReturned ==
  pc \notin {"lexerPanic", "parserPanic"}

\* C12: Decode returns no tree for a file in which the scanner emitted an
\* error token.
C12_ErrorTokenFailsDecode ==
  pc = "returned" => \A k \in 1..Len(lx.items) : lx.items[k].kind # "keyError"

\* The file of the one attribute x with the value text t.
FileOfX(t) == <<AttrLine(Name.x, t)>>

\* Decode has returned the tree of the one attribute x, of this kind and value.
ReturnedX(kind, value) ==
  pc = "returned"
    => p.Attributes = (Name.x :> [Name |-> Name.x, Value |-> value, kind |-> kind])

\* The integer a op b.
IntegerResult(a, op, b) ==
  CASE op = <<"+">> -> a + b
    [] op = <<"-">> -> a - b
    [] op = <<"*">> -> a * b

\* C15: for the literals a and b and op one of + - *, written with or without
\* spaces, once the file `x = a op b` is scanned the decode does not abort,
\* and the tree it returns holds x as the Arithmetic attribute with the Int
\* a op b.
C15_IntegerArithmetic ==
  \A a \in Operands, b \in Operands, sp \in Spacings :
    \A op \in {<<"+">>, <<"-">>, <<"*">>} :
      (Lexed /\ file = FileOfX(Binary(a, op, b, sp)))
        => /\ pc # "parserPanic"
           /\ ReturnedX("attrArithmetic", IntV(IntegerResult(a, op, b)))

\* C16: once the file `x = a + b * c` or `x = a * b + c` is scanned the
\* decode does not abort, and x is the Int a + (b * c), or (a * b) + c.
C16_ProductsBeforeSums ==
  \A a \in SmallOperands, b \in SmallOperands, c \in SmallOperands :
    /\ (Lexed /\ file = FileOfX(SumOfProduct(a, b, c)))
         => /\ pc # "parserPanic"
            /\ ReturnedX("attrArithmetic", IntV(a + (b * c)))
    /\ (Lexed /\ file = FileOfX(ProductPlus(a, b, c)))
         => /\ pc # "parserPanic"
            /\ ReturnedX("attrArithmetic", IntV((a * b) + c))

\* C17: for the literals a and b, b not 0, once the file `x = a / b` is
\* scanned the decode does not abort, and x is the Int holding the integer
\* part of the quotient a / b.
C17_IntegerDivision ==
  \A a \in Operands, b \in Operands \ {0}, sp \in Spacings :
    (Lexed /\ file = FileOfX(Binary(a, <<"/">>, b, sp)))
      => /\ pc # "parserPanic"
         /\ ReturnedX("attrArithmetic", IntV(a \div b))

\* C18: for the literals a and b, b not 0, the file `x = a % b` is scanned
\* into an arithmetic token, the decode does not abort, and the tree it
\* returns holds an attribute x.
C18_RemainderIsEvaluated ==
  \A a \in Operands, b \in Operands \ {0} :
    (Lexed /\ file = FileOfX(Binary(a, <<"%">>, b, <<" ">>)))
      => /\ lx.items[2].kind = "keyArithmetic"
         /\ pc # "parserPanic"
         /\ pc = "returned" => Name.x \in DOMAIN p.Attributes

\* The value texts with an operator that lacks an operand.
MalformedTexts ==
  {LeadingOperator(a) : a \in SmallOperands}
  \cup {TrailingOperator(a) : a \in SmallOperands}
  \cup {ConsecutiveOperators(a, b) : a \in SmallOperands, b \in SmallOperands}

\* C19: the decode of the file `x = t`, t an arithmetic expression with an
\* operator that lacks an operand, never returns, and never stores x.
C19_MalformedArithmeticAborts ==
  \A t \in MalformedTexts :
    file = FileOfX(t)
      => /\ pc # "returned"
         /\ Name.x \notin DOMAIN p.Attributes

\* The boolean a c b.
ComparisonResult(a, c, b) ==
  CASE c = <<"=", "=">> -> a = b
    [] c = <<"!", "=">> -> a # b
    [] c = <<">">>      -> a > b
    [] c = <<">", "=">> -> a >= b
    [] c = <<"<">>      -> a < b
    [] c = <<"<", "=">> -> a <= b

\* C20: for the literals a and b, 0 and 1 among them, and every comparator
\* c, once the file `x = a c b` is scanned the decode does not abort, and x
\* is the Comparison attribute with the Bool a c b.
C20_IntegerComparison ==
  \A a \in SmallOperands, b \in SmallOperands, c \in Comparators :
    (Lexed /\ file = FileOfX(Binary(a, c, b, <<" ">>)))
      => /\ pc # "parserPanic"
         /\ ReturnedX("attrComparison", BoolV(ComparisonResult(a, c, b)))

(***************************************************************************)
(* Properties of several calls.                                            *)
(***************************************************************************)
Returned(i) == calls[i].pc = "returned"

\* C13: of any two calls that have returned, whatever was decoded before,
\* between and after them: the two trees are two objects; if the files are
\* the same, the trees were equal when returned; and the tree of a call
\* whose caller has not written to it is still as it was returned, whatever
\* the other callers did to theirs.
C13_DecodeIsDeterministic ==
  \A i \in Slots, j \in Slots :
    (i # j /\ Returned(i) /\ Returned(j))
      => /\ calls[i].p # calls[j].p
         /\ calls[i].file = calls[j].file => calls[i].tree = calls[j].tree
         /\ ~calls[j].mutated => TreeOf(parsers[calls[j].p]) = calls[j].tree

\* Three calls have returned, the first and the third of the same file, the
\* second of another; the caller of the first has written to its tree, and
\* the tree of the third is as it was returned.
C13_Witness ==
  /\ \A i \in 1..3 : Returned(i)
  /\ calls[1].file = calls[3].file /\ calls[2].file # calls[1].file
  /\ calls[1].mutated /\ ~calls[3].mutated
  /\ Name.app \in DOMAIN parsers[calls[1].p].Attributes
  /\ TreeOf(parsers[calls[3].p]) = calls[3].tree
  /\ calls[1].tree = calls[3].tree
  /\ calls[2].tree # calls[1].tree

\* What a call has computed so far: its position, the contents of its lexer
\* and of its Parser, the address in lx left out (once it has returned, the
\* tree it returned).
ViewOf(i) ==
  [pc     |-> calls[i].pc,
   lexer  |-> IF calls[i].lx = 0 THEN <<>> ELSE lexers[calls[i].lx],
   parser |-> IF Returned(i) THEN calls[i].tree
              ELSE IF calls[i].p = 0 THEN NoTree
              ELSE [f \in DOMAIN parsers[calls[i].p] \ {"lx"} |->
                      parsers[calls[i].p][f]]]

\* C14: however the steps of the calls are interleaved, a step of one call
\* leaves the other calls, their lexers and their Parsers as they were; and
\* two calls on the same file that have taken the same number of steps have
\* computed the same, so every call computes what it computes when it runs
\* alone.
C14_CallsDoNotInterfere ==
  [][/\ \A i \in Slots, j \in Slots :
          (i # j /\ calls'[i] # calls[i])
            => /\ calls'[j] = calls[j]
               /\ calls[j].lx # 0 => lexers'[calls[j].lx] = lexers[calls[j].lx]
               /\ calls[j].p # 0 => parsers'[calls[j].p] = parsers[calls[j].p]
     /\ \A i \in Slots, j \in Slots :
          (calls'[i].file = calls'[j].file /\ calls'[i].steps = calls'[j].steps)
            => ViewOf(i)' = ViewOf(j)'
    ]_vars

\* Two calls on the same file have returned equal trees though their steps
\* were interleaved: the first call made its lexer first, the second its
\* Parser first.
C14_Witness ==
  /\ Returned(1) /\ Returned(2)
  /\ calls[1].file = calls[2].file
  /\ calls[1].lx = 1 /\ calls[2].lx = 2
  /\ calls[1].p = 2 /\ calls[2].p = 1
  /\ calls[1].tree = calls[2].tree
  /\ Name.x \in DOMAIN calls[1].tree.Attributes

(***************************************************************************)
(* Properties of booleans, built-in functions and conditions.              *)
(***************************************************************************)
\* The decode of the one-attribute file has failed or will fail: it never
\* returns a tree.
NoValue == pc # "returned"

EqualityComparators == {<<"=", "=">>, <<"!", "=">>}

\* C21: once the file `x = a c b` is scanned, with a and b the words true or
\* false and c one of == and !=, the decode does not abort and x is the
\* Comparison attribute with the Bool a c b; with one operand a boolean and
\* the other an integer literal, or with two booleans under one of > >= <
\* <=, the decode aborts and returns no tree.
C21_BooleanComparisonIsTypeChecked ==
  /\ \A a \in BOOLEAN, b \in BOOLEAN, c \in EqualityComparators :
       (Lexed /\ file = FileOfX(Compared(BoolWord(a), c, BoolWord(b))))
         => /\ pc # "parserPanic"
            /\ ReturnedX("attrComparison",
                         BoolV(IF c = <<"=", "=">> THEN a = b ELSE a # b))
  /\ \A w \in BoolOperands, n \in NumberOperands, c \in Comparators :
       (Lexed /\ file \in {FileOfX(Compared(w, c, n)), FileOfX(Compared(n, c, w))})
         => NoValue
  /\ \A a \in BoolOperands, b \in BoolOperands :
       \A c \in Comparators \ EqualityComparators :
         (Lexed /\ file = FileOfX(Compared(a, c, b))) => NoValue

\* C22: the tree returned for the file `x = text` holds x as a Bool attribute
\* only when the text is exactly true or false, and the scanner makes a
\* boolean token of no other text.
C22_BooleansAreCaseSensitive ==
  \A t \in BooleanSpellings \ BoolOperands :
    file = FileOfX(t)
      => /\ \A k \in 1..Len(lx.items) : lx.items[k].kind # "keyBool"
         /\ pc = "returned"
              => \A n \in DOMAIN p.Attributes : p.Attributes[n].kind # "attrBool"

\* The file `x = g(a, b)` for a gate g and the booleans a and b.
GateFile(g, a, b) == FileOfX(Call(g, Two(BoolWord(a), BoolWord(b))))

\* C23: once the file `x = and(a, b)` or `x = nand(a, b)` is scanned, for
\* each of the four combinations of true and false, the decode does not
\* abort and x is the Function attribute with the Bool a AND b, or its
\* negation.
C23_AndNandGates ==
  \A a \in BOOLEAN, b \in BOOLEAN :
    /\ (Lexed /\ file = GateFile(FuncName.and, a, b))
         => /\ pc # "parserPanic"
            /\ ReturnedX("attrFunction", BoolV(a /\ b))
    /\ (Lexed /\ file = GateFile(FuncName.nand, a, b))
         => /\ pc # "parserPanic"
            /\ ReturnedX("attrFunction", BoolV(~(a /\ b)))

\* The truth tables of the OR, NOR, XOR and XNOR gates.
GateTable(g, a, b) ==
  CASE g = FuncName.or   -> a \/ b
    [] g = FuncName.nor  -> ~a /\ ~b
    [] g = FuncName.xor  -> (a /\ ~b) \/ (~a /\ b)
    [] g = FuncName.xnor -> (a /\ b) \/ (~a /\ ~b)

\* C24: once the file `x = g(a, b)` is scanned, for g one of or, nor, xor,
\* xnor and each of the four combinations of true and false, the decode does
\* not abort and x is the Function attribute with the Bool of the gate.
C24_OrNorXorXnorGates ==
  \A g \in {FuncName.or, FuncName.nor, FuncName.xor, FuncName.xnor} :
    \A a \in BOOLEAN, b \in BOOLEAN :
      (Lexed /\ file = GateFile(g, a, b))
        => /\ pc # "parserPanic"
           /\ ReturnedX("attrFunction", BoolV(GateTable(g, a, b)))

\* The decode of `x = xor(true, false)` has returned x as true.
C24_Witness ==
  /\ pc = "returned"
  /\ file = GateFile(FuncName.xor, TRUE, FALSE)
  /\ Name.x \in DOMAIN p.Attributes
  /\ p.Attributes[Name.x].Value = BoolV(TRUE)
  /\ p.Attributes[Name.x].kind = "attrFunction"

\* C25: once the file `x = append(a, "c")` is scanned, with a a quoted text,
\* with or without a comma between its quotes, the decode does not abort and
\* x is the Function attribute with the String made of the whole text
\* between the quotes of a, followed by c.
C25_QuotedCommaDoesNotSplit ==
  \A a \in {<<"a", ",", " ", "b">>, <<"a", "b">>} :
    (Lexed /\ file = FileOfX(Call(FuncName.append,
                                  Two(Quoted(a), Quoted(<<"c">>)))))
      => /\ pc # "parserPanic"
         /\ ReturnedX("attrFunction", StringV(a \o <<"c">>))

\* The number the call denotes in exact arithmetic: a to the power 2 (the
\* exponent of every power case), the floor of a / b, the remainder of a by
\* b with the sign of a.
ExactResult(c) ==
  CASE c.name = FuncName.power     -> ratMul(c.a.q, c.a.q)
    [] c.name = FuncName.floor     -> <<ratFloor(ratDiv(c.a.q, c.b.q)), 1>>
    [] c.name = FuncName.remainder ->
         ratSub(c.a.q, ratMul(c.b.q, <<ratTrunc(ratDiv(c.a.q, c.b.q)), 1>>))

\* That number as an Int (its integer part) and as a Float.
AsInt(c)   == IntV(ratTrunc(ExactResult(c)))
AsFloat(c) == FloatV(ExactResult(c))

\* Once the file of the call is scanned the decode does not abort, and x is
\* the Function attribute with this value.
CallYields(c, value) ==
  (Lexed /\ file = FileOfX(CaseText(c)))
    => /\ pc # "parserPanic"
       /\ pc = "returned"
            => /\ DOMAIN p.Attributes = {Name.x}
               /\ p.Attributes[Name.x].kind = "attrFunction"
               /\ p.Attributes[Name.x].Value.t = value.t
               /\ p.Attributes[Name.x].Value.v = value.v

\* C26 as stated: a call of power, floor or remainder yields an Int when
\* both parameters are integer literals, and the Float of the result, not
\* truncated, when one of them is a float literal.
C26_IntOnlyWhenEveryParameterIsInt ==
  \A c \in NumericalCases :
    CallYields(c, IF c.a.int /\ c.b.int THEN AsInt(c) ELSE AsFloat(c))

\* C26 amended: a call of power, floor or remainder yields an Int when at
\* least one parameter is an integer literal, and the Float of the result,
\* not truncated, only when both parameters are float literals.
C26_FloatOnlyWhenEveryParameterIsFloat ==
  \A c \in NumericalCases :
    CallYields(c, IF c.a.int \/ c.b.int THEN AsInt(c) ELSE AsFloat(c))

\* The decode of `x = remainder(7.5, 2.0)` has returned x as the Float 1.5.
C26_Witness ==
  /\ pc = "returned"
  /\ file = FileOfX(Call(FuncName.remainder,
                         Two(<<"7", ".", "5">>, <<"2", ".", "0">>)))
  /\ Name.x \in DOMAIN p.Attributes
  /\ p.Attributes[Name.x].Value.t = "float64"
  /\ p.Attributes[Name.x].Value.v = <<3, 2>>

\* C27: with one parameter an integer literal and the other a float literal,
\* in either order, the call of power, floor or remainder yields the Int
\* that is the integer part of the result computed on the fractions.
C27_OneIntegerMakesAnInt ==
  \A c \in NumericalCases :
    (c.a.int # c.b.int) => CallYields(c, AsInt(c))

\* The decode of `x = floor(7, 2.5)` has returned x as the Int 2, the integer
\* part of 2.8.
C27_Witness ==
  /\ pc = "returned"
  /\ file = FileOfX(Call(FuncName.floor, Two(<<"7">>, <<"2", ".", "5">>)))
  /\ Name.x \in DOMAIN p.Attributes
  /\ p.Attributes[Name.x].kind = "attrFunction"
  /\ p.Attributes[Name.x].Value.t = "int"
  /\ p.Attributes[Name.x].Value.v = 2

\* C28: once the file of a call of power, floor or remainder with a parameter
\* that is no number (a quoted string, a name) is scanned, the decode aborts
\* and returns no tree: the call is not computed with that parameter as 0.
C28_NonNumericParameterFails ==
  \A t \in NonNumericCalls : (Lexed /\ file = FileOfX(t)) => NoValue

\* C29: the decode of the file `x = name(...)` with a name outside the
\* registered set never returns a tree, and stores no attribute.
C29_UnregisteredFunctionFails ==
  \A t \in UnregisteredCalls :
    file = FileOfX(t) => (NoValue /\ p.Attributes = <<>>)

\* The scanner has made a condition token of the value of x.
ConditionIsRecognized ==
  /\ Lexed
  /\ Len(lx.items) >= 2
  /\ lx.items[1].kind = "keyAttrDef"
  /\ lx.items[2].kind = "keyCondition"

Aborted == pc \in {"lexerPanic", "parserPanic"}

\* C31: the decode of the file `x = -n` for an integer literal n does not
\* abort and returns x as the Int -n (so does `number = -10`); the decode of
\* `x = -f` for a float literal f does not abort and returns x as a Float
\* below zero.
C31_NegativeNumberIsAValue ==
  /\ \A n \in Operands \ {0} :
       file = FileOfX(Negative(Itoa(n)))
         => ~Aborted /\ ReturnedX("attrInt", IntV(-n))
  /\ (file = <<NumberExample>> /\ pc = "returned")
       => p.Attributes =
            (<<"n", "u", "m", "b", "e", "r">> :>
               [Name  |-> <<"n", "u", "m", "b", "e", "r">>,
                Value |-> IntV(-10),
                kind  |-> "attrInt"])
  /\ file = <<NumberExample>> => ~Aborted
  /\ \A f \in FloatTexts :
       file = FileOfX(Negative(f.text))
         => /\ ~Aborted
            /\ pc = "returned"
                 => /\ DOMAIN p.Attributes = {Name.x}
                    /\ p.Attributes[Name.x].kind = "attrFloat"
                    /\ p.Attributes[Name.x].Value.t = "float64"
                    /\ p.Attributes[Name.x].Value.v[1] < 0

\* The decode of `number = -10` has returned number as the Int -10.
C31_Witness ==
  /\ pc = "returned"
  /\ file = <<NumberExample>>
  /\ DOMAIN p.Attributes = {<<"n", "u", "m", "b", "e", "r">>}
  /\ p.Attributes[<<"n", "u", "m", "b", "e", "r">>].Value = IntV(-10)

RECURSIVE JoinedBySpaces(_)
JoinedBySpaces(segments) ==
  IF Len(segments) = 1 THEN segments[1]
  ELSE segments[1] \o <<" ">> \o JoinedBySpaces(Tail(segments))

\* The attribute s of the file `s = "seg1" \` ... `"segN"`, as a String.
MultiLineFile(segments, indent) ==
  <<AttrLine(<<"s">>, MultiLine(segments, indent))>>

RoundedToDecimals(f) == roundToPrecision(ParseFloatVal(f.text), f.decimals)

IsFloat(value, q) == value.t = "float64" /\ value.v = q

\* C33: a float literal is rounded with the number of digits after its
\* decimal point as exponent: once the literal is lexed as the value of an
\* attribute the exponent taken from the token is that number, and the
\* returned attribute, each element of the returned array [f, f] and the
\* returned power(f, 1.0) are the float rounded to that many decimals.
C33_FloatRoundedToItsDecimals ==
  \A f \in FloatTexts :
    /\ (file = FileOfX(f.text) /\ Lexed)
         => /\ precisionDigits(lx.items[2].value) = f.decimals
            /\ pc = "returned"
                 => IsFloat(p.Attributes[Name.x].Value, RoundedToDecimals(f))
    /\ (file = <<AttrLine(Name.a, ArrayOf(f.text))>> /\ pc = "returned")
         => /\ p.Attributes[Name.a].Value.t = "array"
            /\ \A i \in DOMAIN p.Attributes[Name.a].Value.v :
                 IsFloat(p.Attributes[Name.a].Value.v[i], RoundedToDecimals(f))
    /\ (file = FileOfX(PowerOne(f.text)) /\ pc = "returned")
         => IsFloat(p.Attributes[Name.x].Value, RoundedToDecimals(f))

(***************************************************************************)
(* Properties of the scanner and of the parser's walk.                     *)
(***************************************************************************)
\* C34: every turn of lexInput's loop in which a rule succeeds (lexByte
\* returns without a panic) raises atEOF or leaves currentByteIndex strictly
\* greater than it was, so that the loop ends after at most len(input) turns.
C34_LexByteMakesProgress ==
  (pc = "lexInput" /\ ~lx.atEOF /\ ~lexByte(lx).panic)
    => \/ lexByte(lx).l.atEOF
       \/ lexByte(lx).l.currentByteIndex > lx.currentByteIndex

\* A turn of the loop has moved the scanner forward and the next one, from
\* the middle of the file, succeeds.
C34_Witness ==
  /\ pc = "lexInput"
  /\ ~lx.atEOF
  /\ lx.currentByteIndex > 0
  /\ lx.items # <<>>
  /\ ~lexByte(lx).panic
  /\ ~lexByte(lx).l.atEOF
  /\ lexByte(lx).l.currentByteIndex > lx.currentByteIndex + 1

\* C35: on every non-empty file, also one that begins with a space or a
\* blank line or ends in an integer of several digits without a line break,
\* lexInput does not abort, and currentByteIndex stays an index of the input
\* (or its length, once atEOF is raised).
C35_ScannerStaysInsideItsInput ==
  /\ pc # "lexerPanic"
  /\ lx.currentByteIndex \in 0..Len(lx.input)
  /\ lx.currentByteIndex = Len(lx.input) => lx.atEOF

\* the kinds of the tokens that are the value of an attribute
ValueKinds ==
  {"keyString", "keyMultiString", "keyInt", "keyFloat", "keyBool",
   "keyArithmetic", "keyComparison", "keyCondition", "keyFunction",
   "keyAttrCall", "keyArrayStart"}

\* the kind of the token emitted before items[k], keyNIL before the first
KindBefore(k) == IF k = 1 THEN "keyNIL" ELSE lx.items[k - 1].kind

\* C36: among the tokens emitted so far, a value token (string, multi-line
\* string, int, float, bool, arithmetic, comparison, condition, function,
\* attribute reference, array start) comes directly after an attribute
\* definition, an array element or array end comes directly after an array
\* start or an array element, and no attribute definition comes directly
\* after another.
C36_TokensFollowTheirContext ==
  \A k \in DOMAIN lx.items :
    /\ lx.items[k].kind \in ValueKinds => KindBefore(k) = "keyAttrDef"
    /\ lx.items[k].kind \in {"keyArrayElem", "keyArrayEnd"}
         => KindBefore(k) \in {"keyArrayStart", "keyArrayElem"}
    /\ lx.items[k].kind = "keyAttrDef" => KindBefore(k) # "keyAttrDef"

\* The scanner has emitted an array with its elements and its end, and
\* after it a second attribute with its value.
C36_Witness ==
  /\ pc = "parseItems"
  /\ \E j, k \in DOMAIN lx.items :
       /\ j + 1 < k
       /\ lx.items[j].kind = "keyArrayElem"
       /\ lx.items[j + 1].kind = "keyArrayEnd"
       /\ lx.items[k].kind = "keyAttrDef"
       /\ k + 1 \in DOMAIN lx.items
       /\ lx.items[k + 1].kind \in ValueKinds \ {"keyArrayStart"}

\* C37: once lexInput has returned, the last token emitted has the kind
\* keyEOF and no token before it has.
C37_TokensEndWithEOF ==
  Lexed
    => /\ lx.items # <<>>
       /\ lx.items[Len(lx.items)].kind = "keyEOF"
       /\ \A k \in 1..(Len(lx.items) - 1) : lx.items[k].kind # "keyEOF"

\* C38: a turn of parseItems' loop that consumes a block start pushes its
\* name on currentBlocks, one that consumes a block end pops the last name
\* of a stack that was not empty, any other turn leaves the stack as it is,
\* and the turn that meets a block end while the stack is empty aborts.
C38_BlockStackMirrorsTokens ==
  [][(pc = "parseItems" /\ ~p.atLastItem)
       => /\ (p.currentItem.kind = "keyBlockStart" /\ pc' = "parseItems")
               => p'.currentBlocks
                    = Append(p.currentBlocks, p.currentItem.value)
          /\ (p.currentItem.kind = "keyBlockEnd" /\ pc' = "parseItems")
               => /\ p.currentBlocks # <<>>
                  /\ p'.currentBlocks
                       = SubSeq(p.currentBlocks, 1, Len(p.currentBlocks) - 1)
          /\ (p.currentItem.kind = "keyBlockEnd" /\ p.currentBlocks = <<>>)
               => pc' = "parserPanic"
          /\ (p.currentItem.kind \notin {"keyBlockStart", "keyBlockEnd"}
                /\ pc' = "parseItems")
               => p'.currentBlocks = p.currentBlocks]_vars

\* A block was opened and closed, and the block end that follows, met with
\* no block open, has aborted the decode.
C38_Witness ==
  /\ pc = "parserPanic"
  /\ p.currentItem.kind = "keyBlockEnd"
  /\ p.currentBlocks = <<>>
  /\ p.Blocks # <<>>

\* C39: once the parser exists its token index is at most the number of
\* tokens, also for an array that has no array end, it is that number when
\* Decode returns, and every turn of parseItems' loop that does not abort
\* leaves it strictly greater than it was.
C39_ParserWalksTheTokensOnce ==
  /\ Lexed => /\ p.currentItemIndex \in 0..Len(lx.items)
              /\ pc = "returned" => p.currentItemIndex = Len(lx.items)
  /\ (pc = "parseItems" /\ ~p.atLastItem /\ ~parseItem(p, lx.items).panic)
       => parseItem(p, lx.items).p.currentItemIndex > p.currentItemIndex

====
